---- MODULE Spec2Model ----
(***************************************************************************)
(* Model of src/src/bot.py: the session / ticket coordination engine of    *)
(* the allat50 bots.  One process runs one telegram Application per bot;   *)
(* every Application handles its own updates one at a time, and the        *)
(* handlers of different Applications interleave at their awaits while     *)
(* sharing the module globals (TICKETS, TICKET_RECORDS, CUSTOMER_TICKETS,  *)
(* TICKET_HISTORY, ticket_counter, ...).                                   *)
(*                                                                         *)
(* Time is counted in units of fifteen minutes.  Chat ids of customers double  *)
(* as their user ids (private chats).                                      *)
(*                                                                         *)
(* An action is a handler run on an update delivered to it; which of the   *)
(* handlers registered in register_bot the Application picks for an update *)
(* is not modelled.                                                        *)
(***************************************************************************)
EXTENDS Integers, Sequences, FiniteSets, TLC

(***************************************************************************)
(* Bounds of the model.                                                    *)
(***************************************************************************)
MaxTime == 3
MaxTickets == 2
MaxRateTickets == 3
SmallTickets == 1
SmallTime == 1
MaxRelays == 3
MaxRestarts == 1
MaxWriteFailures == 1
MaxSends == 1
MaxCoupons == 1

(***************************************************************************)
(* Configuration of the modelled deployment.                               *)
(***************************************************************************)
Bots == {"food", "flight", "hotel"}
\* the two bots of the scenarios in which the hotel bot stays idle
TwoBots == {"food", "flight"}

\* the tasks of the event loop that are suspended at an await: the handler
\* of each Application, and session_cleanup_loop
Tasks == Bots \cup {"sweep"}
ADMIN_CHAT_IDS == <<101, 102>>
Chats == {1, 2}
Aliases == {"al", "bo"}
TicketCounterDefault == 60
\* rateLimit.maxTickets and rateLimit.windowMinutes (30 minutes = 2 units)
rate_limit_max == 2
RATE_LIMIT_SECONDS == 2
RATE_LIMIT_ENABLED == RATE_LIMIT_SECONDS > 0 /\ rate_limit_max > 0
\* sessionTimeoutMinutes (15 minutes = 1 unit)
SESSION_TIMEOUT_SECONDS == 1
\* DUFF_CUT_RATE = 0.25, as a percentage
DUFF_CUT_RATE == 25

Admins == {ADMIN_CHAT_IDS[i] : i \in DOMAIN ADMIN_CHAT_IDS}
is_admin(chat_id) == chat_id \in Admins

(***************************************************************************)
(* Texts are sequences of characters; strip() and lower() as Python's.     *)
(***************************************************************************)
RECURSIVE LStrip(_)
LStrip(s) == IF s # <<>> /\ Head(s) = " " THEN LStrip(Tail(s)) ELSE s

RECURSIVE RStrip(_)
RStrip(s) ==
    IF s # <<>> /\ s[Len(s)] = " " THEN RStrip(SubSeq(s, 1, Len(s) - 1)) ELSE s

\* a strip of the left end only
StripLeft(s) == LStrip(s)

Strip(s) == RStrip(LStrip(s))

LowerChar(c) ==
    CASE c = "Y" -> "y"
      [] c = "E" -> "e"
      [] c = "S" -> "s"
      [] c = "X" -> "x"
      [] OTHER -> c

\* a lower() that also cuts the text after its third character
LowerStart(s) ==
    [i \in {k \in DOMAIN s : k <= 3} |-> LowerChar(s[i])]

Lower(s) == [i \in DOMAIN s |-> LowerChar(s[i])]

YES == <<"y", "e", "s">>

\* what customers type as answers, and at the confirmation prompt
AnswerInputs == {<<"x">>, <<" ", "z", " ">>}
ConfirmInputs == {<<"y", "e", "s">>, <<" ", "Y", "e", "S", " ">>, <<"y", "e", "s", "x">>}

(***************************************************************************)
(* SERVICE_CONFIG: the number of intake questions of each service.         *)
(***************************************************************************)
NumQuestions(service) ==
    IF service = "food" THEN 3 ELSE IF service = "flight" THEN 5 ELSE 6

(***************************************************************************)
(* State.                                                                  *)
(***************************************************************************)
VARIABLES
    now,                    \* time.time(), in units of fifteen minutes
    ticket_counter,         \* global ticket_counter
    CONFIG_FILE,            \* config.json: ticketCounter and bannedChatIds
    TICKETS,                \* ticket id -> ticket (in memory only)
    TICKET_RECORDS,         \* ticket id -> ledger record
    RECORDS_FILE,           \* ticket_records.json as last written
    CUSTOMER_TICKETS,       \* chat id -> its active ticket id
    BANNED_CHAT_IDS,
    TICKET_HISTORY,         \* user id -> submission times kept by the limiter
    ADMIN_TICKET_MESSAGES,  \* <<chat id, message id>> -> ticket id and botKey
    ADMIN_PROMPTS,          \* admin chat -> pending worker-panel action
    sessions,               \* bot -> chat id -> SessionStore.sessions entry
    handler,                \* bot -> the suspended handler of its Application
    ev,                     \* what the last handler step answered or sent
    restarts,               \* process restarts so far
    writeFailures,          \* writes that raised OSError so far
    timers,                 \* the _timeout tasks of the event loop
    SESSIONS,               \* user id -> profile session
    SESSIONS_FILE,          \* data/sessions.json
    TMP_FILE,               \* data/sessions.json.tmp
    STORAGE_LOCK,           \* the bot whose handler holds STORAGE_LOCK, or ""
    DUFF_CHAT_IDS,          \* the escalation pool of config.json
    DUFF_REQUEST_MESSAGES,  \* <<duff chat id, message id>> -> ticket id and botKey
    USERS                   \* user id -> profile

vars == <<now, ticket_counter, CONFIG_FILE, TICKETS, TICKET_RECORDS, RECORDS_FILE,
          CUSTOMER_TICKETS, BANNED_CHAT_IDS, TICKET_HISTORY, ADMIN_TICKET_MESSAGES,
          ADMIN_PROMPTS, sessions, handler, ev, restarts, writeFailures,
          timers, SESSIONS, SESSIONS_FILE, TMP_FILE, STORAGE_LOCK,
          DUFF_CHAT_IDS, DUFF_REQUEST_MESSAGES, USERS>>

storage == <<SESSIONS, SESSIONS_FILE, TMP_FILE, STORAGE_LOCK>>

NoTicket == 0
NoAdmin == 0
NoValue == -1

EmptyMap == [x \in {} |-> NoTicket]

Put(f, k, v) == [x \in DOMAIN f \cup {k} |-> IF x = k THEN v ELSE f[x]]

NoTask == 0

NoSession == [service |-> "", stage |-> "none", step |-> 0, answers |-> EmptyMap,
              category |-> "", last_active |-> NoValue, timeout_task |-> NoTask]

\* a file that does not exist, and one whose writer stopped after open("w")
Absent == [x \in {0} |-> "absent"]
Torn == [x \in {0} |-> "torn"]

\* load_json_file: {} for a file that is absent or does not parse
load_json_file(file) == IF file \in {Absent, Torn} THEN EmptyMap ELSE file

Idle == [pc |-> "idle", ticket |-> NoTicket, chat |-> 0, who |-> NoAdmin, i |-> 0,
         list |-> <<>>, live |-> FALSE, kept |-> <<>>, assigned_id |-> NoAdmin,
         failed |-> FALSE]

Ev(op, who, ticket, res) ==
    [op |-> op, who |-> who, ticket |-> ticket, res |-> res, n |-> 0, bot |-> "",
     text |-> <<>>]

\* an answer of the Application of bot b
EvAt(b, op, who, ticket, res) == [Ev(op, who, ticket, res) EXCEPT !.bot = b]

\* an answer of bot b to the text of a message
EvText(b, op, who, ticket, res, text) ==
    [EvAt(b, op, who, ticket, res) EXCEPT !.text = text]

\* data/sessions.json as found at the first start: one profile session
StoredSessions == [u \in {1} |-> [state |-> "AWAIT_PROFILE_CHOICE", updatedAt |-> 0]]

\* config.json's duffChatIds as deployed, and the profiles of users.json
DuffPool == {201, 202}

NoProfile == [addresses |-> <<>>]

InitWith(pool, users, stored) ==
    /\ DUFF_CHAT_IDS = pool
    /\ DUFF_REQUEST_MESSAGES = EmptyMap
    /\ USERS = users
    /\ now = 0
    /\ CONFIG_FILE = [ticketCounter |-> TicketCounterDefault, bannedChatIds |-> {}]
    /\ RECORDS_FILE = EmptyMap
    /\ ticket_counter = TicketCounterDefault
    /\ BANNED_CHAT_IDS = {}
    /\ TICKET_RECORDS = EmptyMap
    /\ TICKETS = EmptyMap
    /\ CUSTOMER_TICKETS = [c \in Chats |-> NoTicket]
    /\ TICKET_HISTORY = [c \in Chats |-> <<>>]
    /\ ADMIN_TICKET_MESSAGES = EmptyMap
    /\ ADMIN_PROMPTS = [a \in Admins |-> ""]
    /\ sessions = [b \in Bots |-> [c \in Chats |-> NoSession]]
    /\ handler = [b \in Tasks |-> Idle]
    /\ ev = Ev("boot", 0, NoTicket, "")
    /\ restarts = 0
    /\ writeFailures = 0
    /\ timers = {}
    /\ SESSIONS_FILE = stored
    /\ SESSIONS = load_json_file(SESSIONS_FILE)
    /\ TMP_FILE = Absent
    /\ STORAGE_LOCK = ""

Init == InitWith(DuffPool, [u \in Chats |-> NoProfile], StoredSessions)

(***************************************************************************)
(* The process is killed and started again: load_storage,                  *)
(* load_ticket_records, the ticket_counter and BANNED_CHAT_IDS read from   *)
(* config.json, every other global empty, every running handler, session   *)
(* and timer gone.                                                         *)
(***************************************************************************)
\* load_ticket_records: a file that does not parse is logged and nothing loaded
load_ticket_records(file) == IF file = Torn THEN EmptyMap ELSE file

\* a restart that forgets the persisted counter
LoadedDefault(config) == TicketCounterDefault

\* ticket_counter = int(CONFIG.get("ticketCounter", 60))
LoadedCounter(config) == config.ticketCounter

\* the globals after the module has been loaded with these files on disk
Boot(config, records, stored) ==
    /\ ticket_counter' = LoadedCounter(config)
    /\ BANNED_CHAT_IDS' = config.bannedChatIds
    /\ TICKET_RECORDS' = load_ticket_records(records)
    /\ TICKETS' = EmptyMap
    /\ CUSTOMER_TICKETS' = [c \in Chats |-> NoTicket]
    /\ TICKET_HISTORY' = [c \in Chats |-> <<>>]
    /\ ADMIN_TICKET_MESSAGES' = EmptyMap
    /\ ADMIN_PROMPTS' = [a \in Admins |-> ""]
    /\ sessions' = [b \in Bots |-> [c \in Chats |-> NoSession]]
    /\ handler' = [b \in Tasks |-> Idle]
    /\ timers' = {}
    /\ SESSIONS' = load_json_file(stored)
    /\ STORAGE_LOCK' = ""
    /\ DUFF_REQUEST_MESSAGES' = EmptyMap

Restart ==
    /\ restarts < MaxRestarts
    /\ restarts' = restarts + 1
    /\ Boot(CONFIG_FILE, RECORDS_FILE, SESSIONS_FILE)
    /\ ev' = Ev("boot", 0, NoTicket, "")
    /\ UNCHANGED <<now, DUFF_CHAT_IDS, USERS, CONFIG_FILE, RECORDS_FILE, writeFailures, SESSIONS_FILE,
                   TMP_FILE>>

Tick(limit) ==
    /\ now < limit
    /\ now' = now + 1
    /\ ev' = Ev("tick", 0, NoTicket, "")
    /\ UNCHANGED <<ticket_counter, CONFIG_FILE, TICKETS, TICKET_RECORDS, RECORDS_FILE,
                   CUSTOMER_TICKETS, BANNED_CHAT_IDS, TICKET_HISTORY,
                   ADMIN_TICKET_MESSAGES, ADMIN_PROMPTS, sessions, handler,
                   restarts, writeFailures>>
    /\ UNCHANGED <<timers, storage, DUFF_CHAT_IDS, DUFF_REQUEST_MESSAGES, USERS>>

(***************************************************************************)
(* Writes.  save_config and save_ticket_records open the file for writing *)
(* and dump the whole mapping into it, on the loop's thread and without    *)
(* STORAGE_LOCK.  A write either succeeds or its open raises OSError,      *)
(* which leaves the file as it was.  Neither call is wrapped in            *)
(* try/except, so the exception ends the handler that made the call.  A    *)
(* process killed between the open and the end of the dump leaves the      *)
(* file cut short (ConfirmKilled).                                         *)
(***************************************************************************)
ConfigNow(counter, banned) == [ticketCounter |-> counter, bannedChatIds |-> banned]

\* the ways the k writes of a handler can go: 0 = all succeed, j = the j-th raises
WriteOutcomes(k) == {0} \cup (IF writeFailures < MaxWriteFailures THEN 1..k ELSE {})

CountFailure(wf) == writeFailures' = IF wf = 0 THEN writeFailures ELSE writeFailures + 1

(***************************************************************************)
(* ban_guard, the handler of group 0 of every Application.  The update of  *)
(* a worker, of an escalation chat or of a chat that is not banned goes on *)
(* to the other groups.  For a banned chat the guard awaits reply_text and *)
(* then raises ApplicationHandlerStop; when reply_text raises, it is that  *)
(* exception that leaves the guard: the Application logs it and goes on to *)
(* the handlers of the other groups.                                       *)
(***************************************************************************)
Exempt(chat) == is_admin(chat) \/ chat \in DUFF_CHAT_IDS

\* the guard has just let the update of the chat through without stopping it
GuardFailed(chat) == ev.op = "ban_guard" /\ ev.res = "failed" /\ ev.who = chat

Allowed(chat) ==
    Exempt(chat) \/ chat \notin BANNED_CHAT_IDS \/ GuardFailed(chat)

\* the update of a banned chat reaches the guard of bot b: the reply is sent
\* and the update stopped, or the reply raises
BanGuard(b, chat, ok) ==
    /\ handler[b].pc = "idle"
    /\ ~Exempt(chat)
    /\ chat \in BANNED_CHAT_IDS
    /\ ev' = EvAt(b, "ban_guard", chat, NoTicket, IF ok THEN "restricted" ELSE "failed")
    /\ UNCHANGED <<now, DUFF_CHAT_IDS, DUFF_REQUEST_MESSAGES, USERS, ticket_counter,
                   CONFIG_FILE, TICKETS, TICKET_RECORDS, RECORDS_FILE,
                   CUSTOMER_TICKETS, BANNED_CHAT_IDS, TICKET_HISTORY,
                   ADMIN_TICKET_MESSAGES, ADMIN_PROMPTS, sessions, handler,
                   restarts, writeFailures, timers, SESSIONS, SESSIONS_FILE,
                   TMP_FILE, STORAGE_LOCK>>

(***************************************************************************)
(* SessionStore.  A _timeout task is in timers from its creation until it  *)
(* is cancelled or has returned: asleep (pc "sleep"), or past its check    *)
(* and in send_message (pc "send").  The loop's tasks are told apart by id. *)
(***************************************************************************)
TaskIds(ts) == {t.id : t \in ts}

NewTaskId(ts) ==
    CHOOSE n \in 1..(Cardinality(ts) + 1) :
        n \notin TaskIds(ts) /\ \A m \in 1..(n - 1) : m \in TaskIds(ts)

\* a reset that cancels nothing
TimersKept(b, chat) == timers

\* reset: session["timeout_task"].cancel() of the session popped, if any
TimersAfterReset(b, chat) ==
    {t \in timers : t.id # sessions[b][chat].timeout_task}

\* a reset that leaves the session in the store
StoreKeep(b, chat) == sessions

StoreReset(b, chat) == [sessions EXCEPT ![b][chat] = NoSession]

\* set: reset, then last_active = time.time() and the new _timeout task
NewTask(b, chat) ==
    [id |-> NewTaskId(timers), bot |-> b, chat |-> chat,
     last_active |-> now, pc |-> "sleep"]

\* a set that schedules the new task beside the old one
TimersAdded(b, chat) == timers \cup {NewTask(b, chat)}

TimersAfterSet(b, chat) ==
    IF SESSION_TIMEOUT_SECONDS > 0
    THEN TimersAfterReset(b, chat) \cup {NewTask(b, chat)}
    ELSE TimersAfterReset(b, chat)

StoreSet(b, chat, session) ==
    [sessions EXCEPT ![b][chat] =
        IF SESSION_TIMEOUT_SECONDS > 0
        THEN [session EXCEPT !.last_active = now,
                             !.timeout_task = NewTask(b, chat).id]
        ELSE session]

(***************************************************************************)
(* start_flow_callback: the "start" button of the flight and hotel bots.   *)
(* The food bot has no caller of its question flow.                        *)
(***************************************************************************)
StartFlow(b, chat) ==
    /\ handler[b].pc = "idle"
    /\ Allowed(chat)
    /\ b # "food"
    /\ sessions' = StoreSet(b, chat,
                     [service |-> b, stage |-> "questions", step |-> 0,
                      answers |-> EmptyMap,
                      category |-> IF b = "flight" THEN "Flights" ELSE "Hotels",
                      last_active |-> NoValue, timeout_task |-> NoTask])
    /\ timers' = TimersAfterSet(b, chat)
    /\ ev' = EvAt(b, "start", chat, NoTicket, "prompt")
    /\ UNCHANGED <<now, DUFF_CHAT_IDS, DUFF_REQUEST_MESSAGES, USERS, ticket_counter, CONFIG_FILE, TICKETS, TICKET_RECORDS,
                   RECORDS_FILE, CUSTOMER_TICKETS, BANNED_CHAT_IDS, TICKET_HISTORY,
                   ADMIN_TICKET_MESSAGES, ADMIN_PROMPTS, handler, restarts,
                   writeFailures>>
    /\ UNCHANGED storage

(***************************************************************************)
(* cancel_command / start_command: store.reset.                            *)
(***************************************************************************)
\* a cancel that answers without resetting the store
CancelOnlyAnswers(b, chat) ==
    /\ handler[b].pc = "idle"
    /\ Allowed(chat)
    /\ ev' = EvAt(b, "cancel", chat, NoTicket, "canceled")
    /\ UNCHANGED <<now, DUFF_CHAT_IDS, DUFF_REQUEST_MESSAGES, USERS, ticket_counter, CONFIG_FILE, TICKETS, TICKET_RECORDS,
                   RECORDS_FILE, CUSTOMER_TICKETS, BANNED_CHAT_IDS, TICKET_HISTORY,
                   ADMIN_TICKET_MESSAGES, ADMIN_PROMPTS, sessions, handler, restarts,
                   writeFailures, timers, storage>>

Cancel(b, chat) ==
    /\ handler[b].pc = "idle"
    /\ Allowed(chat)
    /\ sessions' = StoreReset(b, chat)
    /\ timers' = TimersAfterReset(b, chat)
    /\ ev' = EvAt(b, "cancel", chat, NoTicket, "canceled")
    /\ UNCHANGED <<now, DUFF_CHAT_IDS, DUFF_REQUEST_MESSAGES, USERS, ticket_counter, CONFIG_FILE, TICKETS, TICKET_RECORDS,
                   RECORDS_FILE, CUSTOMER_TICKETS, BANNED_CHAT_IDS, TICKET_HISTORY,
                   ADMIN_TICKET_MESSAGES, ADMIN_PROMPTS, handler, restarts,
                   writeFailures>>
    /\ UNCHANGED storage

(***************************************************************************)
(* text_handler, stage "questions".                                        *)
(***************************************************************************)
Answer(b, chat, text) ==
    LET session == sessions[b][chat]
        answered == [session EXCEPT !.answers = Put(@, session.step, Strip(text))]
    IN  /\ handler[b].pc = "idle"
        /\ Allowed(chat)
        /\ session.stage = "questions"
        /\ sessions' = StoreSet(b, chat,
                         IF session.step < NumQuestions(b) - 1
                         THEN [answered EXCEPT !.step = @ + 1]
                         ELSE [answered EXCEPT !.stage = "continue"])
        /\ timers' = TimersAfterSet(b, chat)
        /\ ev' = EvText(b, "answer", chat, NoTicket, "prompt", text)
        /\ UNCHANGED <<now, DUFF_CHAT_IDS, DUFF_REQUEST_MESSAGES, USERS, ticket_counter, CONFIG_FILE, TICKETS, TICKET_RECORDS,
                       RECORDS_FILE, CUSTOMER_TICKETS, BANNED_CHAT_IDS,
                       TICKET_HISTORY, ADMIN_TICKET_MESSAGES, ADMIN_PROMPTS, handler,
                       restarts, writeFailures>>
        /\ UNCHANGED storage

(***************************************************************************)
(* SessionStore._timeout.  The sleep is the loop's, not the clock of       *)
(* last_active: a sleeping task may wake at any time.  Between the wake-up *)
(* and the pop there is no await.                                          *)
(***************************************************************************)
\* a timer that never acts
TimeoutNever(current, last_active) == FALSE

\* not (not current or current.get("last_active") != last_active)
TimeoutActs(current, last_active) ==
    current # NoSession /\ current.last_active = last_active

SendingTimers == {t \in timers : t.pc = "send"}

TimerFire(t) ==
    /\ t \in timers
    /\ t.pc = "sleep"
    /\ IF TimeoutActs(sessions[t.bot][t.chat], t.last_active)
       THEN /\ Cardinality(SendingTimers) < MaxSends
            /\ sessions' = [sessions EXCEPT ![t.bot][t.chat] = NoSession]
            /\ timers' = (timers \ {t}) \cup {[t EXCEPT !.pc = "send"]}
            /\ ev' = [EvAt(t.bot, "timeout", t.chat, NoTicket, "deleted")
                        EXCEPT !.n = t.id]
       ELSE /\ timers' = timers \ {t}
            /\ ev' = [EvAt(t.bot, "timeout", t.chat, NoTicket, "stale")
                        EXCEPT !.n = t.id]
            /\ UNCHANGED sessions
    /\ UNCHANGED <<now, DUFF_CHAT_IDS, DUFF_REQUEST_MESSAGES, USERS, ticket_counter, CONFIG_FILE, TICKETS, TICKET_RECORDS,
                   RECORDS_FILE, CUSTOMER_TICKETS, BANNED_CHAT_IDS, TICKET_HISTORY,
                   ADMIN_TICKET_MESSAGES, ADMIN_PROMPTS, handler, restarts,
                   writeFailures, storage>>

\* bot.send_message of the notice returns or raises
TimerSend(t, ok) ==
    /\ t \in timers
    /\ t.pc = "send"
    /\ timers' = timers \ {t}
    /\ ev' = [EvAt(t.bot, "timeout", t.chat, NoTicket,
                   IF ok THEN "notified" ELSE "failed") EXCEPT !.n = t.id]
    /\ UNCHANGED <<now, DUFF_CHAT_IDS, DUFF_REQUEST_MESSAGES, USERS, ticket_counter, CONFIG_FILE, TICKETS, TICKET_RECORDS,
                   RECORDS_FILE, CUSTOMER_TICKETS, BANNED_CHAT_IDS, TICKET_HISTORY,
                   ADMIN_TICKET_MESSAGES, ADMIN_PROMPTS, sessions, handler, restarts,
                   writeFailures, storage>>

(***************************************************************************)
(* check_rate_limit.                                                       *)
(***************************************************************************)
\* a limiter that never forgets an old submission
RateNotPruned(history, t) == history

RatePruned(history, t) ==
    SelectSeq(history, LAMBDA x : x >= t - RATE_LIMIT_SECONDS)

RateLimited(history, t) ==
    RATE_LIMIT_ENABLED /\ Len(RatePruned(history, t)) >= rate_limit_max

RetryAfter(history, t) == RatePruned(history, t)[1] + RATE_LIMIT_SECONDS - t

\* text_handler: minutes = int((rate.get("retry_after", 0) / 60) + 1), with
\* retry_after in whole seconds; the value is never negative, so that int
\* rounds down
RetryMinutes(retry_after) == (retry_after \div 60) + 1

\* the answer to a confirmation that the limiter refused with retry_after
\* seconds to wait: the session is reset and the minutes are reported
LimitedReply(b, chat, retry_after) ==
    /\ handler[b].pc = "idle"
    /\ Allowed(chat)
    /\ sessions' = StoreReset(b, chat)
    /\ timers' = TimersAfterReset(b, chat)
    /\ ev' = [EvText(b, "limited_reply", chat, NoTicket, "limited", <<retry_after>>)
                EXCEPT !.n = RetryMinutes(retry_after)]
    /\ UNCHANGED <<now, DUFF_CHAT_IDS, DUFF_REQUEST_MESSAGES, USERS, ticket_counter,
                   CONFIG_FILE, TICKETS, TICKET_RECORDS, RECORDS_FILE,
                   CUSTOMER_TICKETS, BANNED_CHAT_IDS, TICKET_HISTORY,
                   ADMIN_TICKET_MESSAGES, ADMIN_PROMPTS, handler, restarts,
                   writeFailures>>
    /\ UNCHANGED storage

HistoryAfter(history, t) ==
    IF ~RATE_LIMIT_ENABLED THEN history
    ELSE IF RateLimited(history, t) THEN RatePruned(history, t)
    ELSE Append(RatePruned(history, t), t)

(***************************************************************************)
(* Tickets and ledger records.                                             *)
(***************************************************************************)
NewTicket(chat, category, answers, bot_key) ==
    [chatId |-> chat, category |-> category, answers |-> answers,
     status |-> "open", adminMessages |-> <<>>, botKey |-> bot_key,
     assignedAdminId |-> NoAdmin, assignedAlias |-> "", acceptedAt |-> NoValue,
     couponRequested |-> FALSE, couponRequestedBy |-> "",
     couponRequestedAt |-> NoValue, couponProvidedBy |-> NoAdmin,
     couponProvidedAt |-> NoValue, couponText |-> <<>>]

\* create_ticket_record
NewRecord(chat, category, bot_key) ==
    [status |-> "open", createdAt |-> now, chatId |-> chat, category |-> category,
     botKey |-> bot_key, closeType |-> "", closedBy |-> NoAdmin, closedAt |-> NoValue,
     profit |-> NoValue, duffCut |-> NoValue,
     assignedAdminId |-> NoAdmin, assignedAlias |-> "", acceptedAt |-> NoValue,
     couponRequested |-> FALSE, couponRequestedBy |-> "",
     couponRequestedAt |-> NoValue, couponProvidedBy |-> NoAdmin,
     couponProvidedAt |-> NoValue]

\* the id the transport gives the next message that gets registered
NewMessageId == Cardinality(DOMAIN ADMIN_TICKET_MESSAGES) + 1

\* a list object shared with a suspended handler sees what is appended to it
AppendLive(hs, t, entry) ==
    [x \in Tasks |->
        IF hs[x].live /\ hs[x].ticket = t
        THEN [hs[x] EXCEPT !.list = Append(@, entry)]
        ELSE hs[x]]

(***************************************************************************)
(* text_handler, stage "continue": the confirmation, the rate limiter, and *)
(* the creation of the ticket up to the first send of send_admin_ticket.   *)
(***************************************************************************)
Confirm(b, chat, text, maxTickets, wf) ==
    LET session == sessions[b][chat]
        history == TICKET_HISTORY[chat]
        id      == ticket_counter + 1
        ticket  == NewTicket(chat, session.category, session.answers, b)
        record  == NewRecord(chat, session.category, b)
    IN  /\ handler[b].pc = "idle"
        /\ Allowed(chat)
        /\ session.stage = "continue"
        /\ IF Lower(Strip(text)) # YES
           THEN /\ wf = 0
                /\ ev' = EvText(b, "confirm", chat, NoTicket, "prompt", text)
                /\ UNCHANGED <<ticket_counter, CONFIG_FILE, TICKETS, TICKET_RECORDS,
                               RECORDS_FILE, CUSTOMER_TICKETS, TICKET_HISTORY,
                               sessions, timers, handler>>
           ELSE IF RateLimited(history, now)
           THEN /\ wf = 0
                /\ TICKET_HISTORY' = [TICKET_HISTORY EXCEPT ![chat] = HistoryAfter(history, now)]
                /\ sessions' = StoreReset(b, chat)
                /\ timers' = TimersAfterReset(b, chat)
                /\ ev' = [EvText(b, "confirm", chat, NoTicket, "limited", text)
                            EXCEPT !.n = RetryAfter(history, now)]
                /\ UNCHANGED <<ticket_counter, CONFIG_FILE, TICKETS, TICKET_RECORDS,
                               RECORDS_FILE, CUSTOMER_TICKETS, handler>>
           ELSE /\ ticket_counter < TicketCounterDefault + maxTickets
                /\ UNCHANGED timers
                /\ TICKET_HISTORY' = [TICKET_HISTORY EXCEPT ![chat] = HistoryAfter(history, now)]
                /\ ticket_counter' = id
                /\ IF wf = 1
                   THEN \* next_ticket_id: save_config raises
                        /\ ev' = EvText(b, "confirm", chat, NoTicket, "error", text)
                        /\ UNCHANGED <<CONFIG_FILE, TICKETS, TICKET_RECORDS, RECORDS_FILE,
                                       CUSTOMER_TICKETS, sessions, handler>>
                   ELSE /\ CONFIG_FILE' = ConfigNow(id, BANNED_CHAT_IDS)
                        /\ TICKETS' = Put(TICKETS, id, ticket)
                        /\ TICKET_RECORDS' = Put(TICKET_RECORDS, id, record)
                        /\ IF wf = 2
                           THEN \* create_ticket_record: save_ticket_records raises
                                /\ ev' = EvText(b, "confirm", chat, id, "error", text)
                                /\ UNCHANGED <<RECORDS_FILE, CUSTOMER_TICKETS, sessions,
                                               handler>>
                           ELSE /\ RECORDS_FILE' = TICKET_RECORDS'
                                /\ CUSTOMER_TICKETS' = [CUSTOMER_TICKETS EXCEPT ![chat] = id]
                                /\ handler' = [handler EXCEPT ![b] =
                                       [Idle EXCEPT !.pc = "fanout", !.ticket = id,
                                                    !.chat = chat, !.i = 1]]
                                /\ ev' = EvText(b, "confirm", chat, id, "created", text)
                                /\ UNCHANGED sessions
        /\ CountFailure(wf)
        /\ UNCHANGED <<now, DUFF_CHAT_IDS, DUFF_REQUEST_MESSAGES, USERS, BANNED_CHAT_IDS, ADMIN_TICKET_MESSAGES, ADMIN_PROMPTS,
                       restarts>>
        /\ UNCHANGED storage

(***************************************************************************)
(* The same confirmation when the process is killed inside                 *)
(* save_ticket_records, after the open has emptied ticket_records.json and *)
(* before json.dump has finished: config.json has the new counter, the     *)
(* ledger file is cut short, and the process starts again from the files.  *)
(***************************************************************************)
ConfirmKilled(b, chat, text, maxTickets) ==
    LET session == sessions[b][chat]
        id      == ticket_counter + 1
        config  == ConfigNow(id, BANNED_CHAT_IDS)
    IN  /\ restarts < MaxRestarts
        /\ handler[b].pc = "idle"
        /\ Allowed(chat)
        /\ session.stage = "continue"
        /\ Lower(Strip(text)) = YES
        /\ ~RateLimited(TICKET_HISTORY[chat], now)
        /\ ticket_counter < TicketCounterDefault + maxTickets
        /\ restarts' = restarts + 1
        /\ CONFIG_FILE' = config
        /\ RECORDS_FILE' = Torn
        /\ Boot(config, Torn, SESSIONS_FILE)
        /\ ev' = EvText(b, "confirm", chat, id, "killed", text)
        /\ UNCHANGED <<now, DUFF_CHAT_IDS, USERS, writeFailures, SESSIONS_FILE, TMP_FILE>>

(***************************************************************************)
(* food_category (food bot): after query.answer the profile session of the *)
(* user is popped from SESSIONS and save_json takes STORAGE_LOCK and hands *)
(* atomic_write_json to a worker thread; the handler is suspended until    *)
(* the thread is done, and handlers of the other bots run meanwhile.       *)
(***************************************************************************)
Pop(f, k) == [x \in DOMAIN f \ {k} |-> f[x]]

\* save_json, "async with STORAGE_LOCK": the task takes the lock and starts
\* the thread, or waits for the lock
LockAfter(b) == IF STORAGE_LOCK = "" THEN b ELSE STORAGE_LOCK

Saving(b, user) ==
    [Idle EXCEPT !.pc = IF STORAGE_LOCK = "" THEN "save_open" ELSE "wait_lock",
                 !.chat = user]

\* the task whose save raised: a handler is over, session_cleanup_loop has
\* no try and is gone
Ended(b) == IF b = "sweep" THEN [Idle EXCEPT !.pc = "stopped"] ELSE Idle

\* what the end of a save is to its task: food_category is answered, the
\* sweep has nobody to tell
SaveEnd(b, res) ==
    EvAt(b, IF b = "sweep" THEN "save" ELSE "category", handler[b].chat, NoTicket, res)

\* the keys of a mapping in the order json.dump meets them
RECURSIVE KeysOf(_)
KeysOf(f) ==
    IF DOMAIN f = {} THEN <<>>
    ELSE LET k == CHOOSE x \in DOMAIN f : \A y \in DOMAIN f : x <= y
         IN  <<k>> \o KeysOf(Pop(f, k))

FoodCategory(user) ==
    /\ handler["food"].pc = "idle"
    /\ Allowed(user)
    /\ SESSIONS' = Pop(SESSIONS, user)
    /\ STORAGE_LOCK' = LockAfter("food")
    /\ handler' = [handler EXCEPT !["food"] = Saving("food", user)]
    /\ ev' = EvAt("food", "category", user, NoTicket, "saving")
    /\ UNCHANGED <<now, DUFF_CHAT_IDS, DUFF_REQUEST_MESSAGES, USERS, ticket_counter, CONFIG_FILE, TICKETS, TICKET_RECORDS,
                   RECORDS_FILE, CUSTOMER_TICKETS, BANNED_CHAT_IDS, TICKET_HISTORY,
                   ADMIN_TICKET_MESSAGES, ADMIN_PROMPTS, sessions, restarts,
                   writeFailures, timers, SESSIONS_FILE, TMP_FILE>>

\* the lock is released and a task that waits for it goes on
LockAcquired(b) ==
    /\ handler[b].pc = "wait_lock"
    /\ STORAGE_LOCK = ""
    /\ STORAGE_LOCK' = b
    /\ handler' = [handler EXCEPT ![b].pc = "save_open"]
    /\ ev' = EvAt(b, "save", handler[b].chat, NoTicket, "locked")
    /\ UNCHANGED <<now, DUFF_CHAT_IDS, DUFF_REQUEST_MESSAGES, USERS, ticket_counter, CONFIG_FILE, TICKETS, TICKET_RECORDS,
                   RECORDS_FILE, CUSTOMER_TICKETS, BANNED_CHAT_IDS, TICKET_HISTORY,
                   ADMIN_TICKET_MESSAGES, ADMIN_PROMPTS, sessions, restarts,
                   writeFailures, timers, SESSIONS, SESSIONS_FILE, TMP_FILE>>

\* atomic_write_json in the thread of the task that holds the lock:
\* tmp_path.open("w") empties the temporary file, or raises OSError;
\* json.dump(data, handle) then starts to iterate over data, which is the
\* mapping itself and not a copy of it
SaveOpen(wf) ==
    /\ STORAGE_LOCK \in Tasks
    /\ handler[STORAGE_LOCK].pc = "save_open"
    /\ IF wf = 0
       THEN /\ TMP_FILE' = Torn
            /\ handler' = [handler EXCEPT ![STORAGE_LOCK] =
                              [@ EXCEPT !.pc = "save_dump", !.i = 0,
                                        !.list = KeysOf(SESSIONS), !.kept = EmptyMap]]
            /\ ev' = EvAt(STORAGE_LOCK, "save", handler[STORAGE_LOCK].chat, NoTicket,
                          "opened")
            /\ UNCHANGED STORAGE_LOCK
       ELSE \* the exception leaves save_json, which releases the lock, and
            \* ends the task
            /\ STORAGE_LOCK' = ""
            /\ handler' = [handler EXCEPT ![STORAGE_LOCK] = Ended(STORAGE_LOCK)]
            /\ ev' = SaveEnd(STORAGE_LOCK, "error")
            /\ UNCHANGED TMP_FILE
    /\ CountFailure(wf)
    /\ UNCHANGED <<now, DUFF_CHAT_IDS, DUFF_REQUEST_MESSAGES, USERS, ticket_counter, CONFIG_FILE, TICKETS, TICKET_RECORDS,
                   RECORDS_FILE, CUSTOMER_TICKETS, BANNED_CHAT_IDS, TICKET_HISTORY,
                   ADMIN_TICKET_MESSAGES, ADMIN_PROMPTS, sessions, restarts,
                   timers, SESSIONS, SESSIONS_FILE>>

\* json.dump, one step of the iteration over the mapping: the iterator
\* raises RuntimeError when the mapping has changed size since the iteration
\* began; otherwise the next key is written with the value it has now, or
\* the iteration is over
Dumped(h) ==
    IF Cardinality(DOMAIN SESSIONS) # Len(h.list)
          \/ \E i \in DOMAIN h.list : h.list[i] \notin DOMAIN SESSIONS
    THEN [next |-> "changed", kept |-> h.kept]
    ELSE IF h.i < Len(h.list)
    THEN [next |-> "more",
          kept |-> Put(h.kept, h.list[h.i + 1], SESSIONS[h.list[h.i + 1]])]
    ELSE [next |-> "done", kept |-> h.kept]

\* json.dump(data, handle) and the close of the temporary file
SaveDump ==
    /\ STORAGE_LOCK \in Tasks
    /\ handler[STORAGE_LOCK].pc = "save_dump"
    /\ LET h == handler[STORAGE_LOCK]
           d == Dumped(h)
       IN  /\ TMP_FILE' = IF d.next = "done" THEN d.kept ELSE TMP_FILE
           /\ STORAGE_LOCK' = IF d.next = "changed" THEN "" ELSE STORAGE_LOCK
           /\ handler' = [handler EXCEPT ![STORAGE_LOCK] =
                  IF d.next = "changed" THEN Ended(STORAGE_LOCK)
                  ELSE IF d.next = "more"
                  THEN [h EXCEPT !.i = @ + 1, !.kept = d.kept]
                  ELSE [h EXCEPT !.pc = "save_replace", !.kept = d.kept]]
           /\ ev' = EvAt(STORAGE_LOCK, "save", h.chat, NoTicket,
                         IF d.next = "done" THEN "dumped" ELSE d.next)
    /\ UNCHANGED <<now, DUFF_CHAT_IDS, DUFF_REQUEST_MESSAGES, USERS, ticket_counter, CONFIG_FILE, TICKETS, TICKET_RECORDS,
                   RECORDS_FILE, CUSTOMER_TICKETS, BANNED_CHAT_IDS, TICKET_HISTORY,
                   ADMIN_TICKET_MESSAGES, ADMIN_PROMPTS, sessions, restarts,
                   writeFailures, timers, SESSIONS, SESSIONS_FILE>>

\* tmp_path.replace(path)
SaveReplace ==
    /\ STORAGE_LOCK \in Tasks
    /\ handler[STORAGE_LOCK].pc = "save_replace"
    /\ SESSIONS_FILE' = TMP_FILE
    /\ TMP_FILE' = Absent
    /\ handler' = [handler EXCEPT ![STORAGE_LOCK].pc = "save_done"]
    /\ ev' = EvAt(STORAGE_LOCK, "save", handler[STORAGE_LOCK].chat, NoTicket, "replaced")
    /\ UNCHANGED <<now, DUFF_CHAT_IDS, DUFF_REQUEST_MESSAGES, USERS, ticket_counter, CONFIG_FILE, TICKETS, TICKET_RECORDS,
                   RECORDS_FILE, CUSTOMER_TICKETS, BANNED_CHAT_IDS, TICKET_HISTORY,
                   ADMIN_TICKET_MESSAGES, ADMIN_PROMPTS, sessions, restarts,
                   writeFailures, timers, SESSIONS, STORAGE_LOCK>>

\* the loop resumes save_json, which releases the lock; food_category goes on
\* to handle_food_option(query.message, ...), which reads effective_user of a
\* Message and ends with AttributeError; session_cleanup_loop sleeps again
SaveDone ==
    /\ STORAGE_LOCK \in Tasks
    /\ handler[STORAGE_LOCK].pc = "save_done"
    /\ STORAGE_LOCK' = ""
    /\ handler' = [handler EXCEPT ![STORAGE_LOCK] = Idle]
    /\ ev' = SaveEnd(STORAGE_LOCK, "saved")
    /\ UNCHANGED <<now, DUFF_CHAT_IDS, DUFF_REQUEST_MESSAGES, USERS, ticket_counter, CONFIG_FILE, TICKETS, TICKET_RECORDS,
                   RECORDS_FILE, CUSTOMER_TICKETS, BANNED_CHAT_IDS, TICKET_HISTORY,
                   ADMIN_TICKET_MESSAGES, ADMIN_PROMPTS, sessions, restarts,
                   writeFailures, timers, SESSIONS, SESSIONS_FILE, TMP_FILE>>

(***************************************************************************)
(* Profile sessions expire.  A stamp is int(time.time() * 1000); NoValue   *)
(* stands for a session without updatedAt.  SESSION_TTL_SECONDS is 30      *)
(* minutes, 2 units of the clock.                                          *)
(***************************************************************************)
SESSION_TTL_SECONDS == 2

\* a test that takes the session of age SESSION_TTL_SECONDS for expired and
\* one without stamp for fresh
ExpiredFromTTL(session) ==
    session.updatedAt # NoValue /\ (now - session.updatedAt) >= SESSION_TTL_SECONDS

\* not updated_at or (now - (updated_at / 1000)) > SESSION_TTL_SECONDS
Expired(session) ==
    session.updatedAt = NoValue \/ (now - session.updatedAt) > SESSION_TTL_SECONDS

\* cleanup_profile_sessions: SESSIONS after the pops
Swept == [u \in {k \in DOMAIN SESSIONS : ~Expired(SESSIONS[k])} |-> SESSIONS[u]]

ProfileStates == {"AWAIT_PROFILE_CHOICE", "AWAIT_ADDRESS_PICK"}

\* the session as save_profile_session stores it
Stamped(user_id, state) == [state |-> state, updatedAt |-> now]

\* save_profile_session, its write of sessions.json taken as one step
SaveProfileSession(user_id, state) ==
    /\ handler["food"].pc = "idle"
    /\ STORAGE_LOCK = ""
    /\ SESSIONS' = [u \in DOMAIN SESSIONS \cup {user_id} |->
                       IF u = user_id THEN Stamped(user_id, state) ELSE SESSIONS[u]]
    /\ SESSIONS_FILE' = SESSIONS'
    /\ ev' = EvAt("food", "save_session", user_id, NoTicket, "saved")
    /\ UNCHANGED <<now, DUFF_CHAT_IDS, DUFF_REQUEST_MESSAGES, USERS, ticket_counter,
                   CONFIG_FILE, TICKETS, TICKET_RECORDS, RECORDS_FILE,
                   CUSTOMER_TICKETS, BANNED_CHAT_IDS, TICKET_HISTORY,
                   ADMIN_TICKET_MESSAGES, ADMIN_PROMPTS, sessions, handler, restarts,
                   writeFailures, timers, TMP_FILE, STORAGE_LOCK>>

\* get_profile_session: the sweep, then the lookup; nothing is written
GetProfileSession(user_id) ==
    /\ SESSIONS' = Swept
    /\ ev' = IF user_id \in DOMAIN Swept
             THEN EvText("food", "lookup", user_id, NoTicket, "found", Swept[user_id])
             ELSE EvAt("food", "lookup", user_id, NoTicket, "none")
    /\ UNCHANGED <<now, DUFF_CHAT_IDS, DUFF_REQUEST_MESSAGES, USERS, ticket_counter,
                   CONFIG_FILE, TICKETS, TICKET_RECORDS, RECORDS_FILE,
                   CUSTOMER_TICKETS, BANNED_CHAT_IDS, TICKET_HISTORY,
                   ADMIN_TICKET_MESSAGES, ADMIN_PROMPTS, sessions, handler, restarts,
                   writeFailures, timers, SESSIONS_FILE, TMP_FILE, STORAGE_LOCK>>

\* session_cleanup_loop, one round: the sweep and, when something was
\* removed, save_json, for which the task takes the lock or waits
SessionCleanup ==
    /\ handler["sweep"].pc = "idle"
    /\ SESSIONS' = Swept
    /\ STORAGE_LOCK' = IF Swept # SESSIONS THEN LockAfter("sweep") ELSE STORAGE_LOCK
    /\ handler' = IF Swept # SESSIONS
                  THEN [handler EXCEPT !["sweep"] = Saving("sweep", 0)]
                  ELSE handler
    /\ ev' = [Ev("sweep", 0, NoTicket, IF Swept # SESSIONS THEN "removed" ELSE "kept")
                 EXCEPT !.n = Cardinality(DOMAIN SESSIONS \ DOMAIN Swept)]
    /\ UNCHANGED <<now, DUFF_CHAT_IDS, DUFF_REQUEST_MESSAGES, USERS, ticket_counter,
                   CONFIG_FILE, TICKETS, TICKET_RECORDS, RECORDS_FILE,
                   CUSTOMER_TICKETS, BANNED_CHAT_IDS, TICKET_HISTORY,
                   ADMIN_TICKET_MESSAGES, ADMIN_PROMPTS, sessions, restarts,
                   writeFailures, timers, SESSIONS_FILE, TMP_FILE>>

(***************************************************************************)
(* send_admin_ticket: the send to ADMIN_CHAT_IDS[i] returns or raises; the *)
(* last one is followed by store.reset in text_handler.                    *)
(***************************************************************************)
FanoutStep(b, ok) ==
    LET h     == handler[b]
        t     == h.ticket
        admin == ADMIN_CHAT_IDS[h.i]
        entry == [chatId |-> admin, messageId |-> NewMessageId]
        hs    == IF ok /\ t \in DOMAIN TICKETS THEN AppendLive(handler, t, entry)
                 ELSE handler
        last  == h.i = Len(ADMIN_CHAT_IDS)
    IN  /\ h.pc = "fanout"
        /\ IF ok
           THEN /\ ADMIN_TICKET_MESSAGES' =
                       Put(ADMIN_TICKET_MESSAGES, <<admin, NewMessageId>>,
                           [ticketId |-> t, botKey |-> b])
                /\ TICKETS' = IF t \in DOMAIN TICKETS
                              THEN [TICKETS EXCEPT ![t].adminMessages = Append(@, entry)]
                              ELSE TICKETS
           ELSE UNCHANGED <<ADMIN_TICKET_MESSAGES, TICKETS>>
        /\ handler' = [hs EXCEPT ![b] =
                          IF last THEN Idle
                          ELSE [h EXCEPT !.i = @ + 1, !.failed = @ \/ ~ok]]
        /\ sessions' = IF last THEN StoreReset(b, h.chat) ELSE sessions
        /\ timers' = IF last THEN TimersAfterReset(b, h.chat) ELSE timers
        /\ ev' = EvAt(b, "fanout", admin, t,
                    IF ~last THEN (IF ok THEN "sent" ELSE "failed")
                    ELSE IF ok /\ ~h.failed THEN "all_sent" ELSE "some_failed")
        /\ UNCHANGED <<now, DUFF_CHAT_IDS, DUFF_REQUEST_MESSAGES, USERS, ticket_counter, CONFIG_FILE, TICKET_RECORDS, RECORDS_FILE,
                       CUSTOMER_TICKETS, BANNED_CHAT_IDS, TICKET_HISTORY, ADMIN_PROMPTS,
                       restarts, writeFailures>>
        /\ UNCHANGED storage

(***************************************************************************)
(* get_open_ticket: the chat's active open ticket, or NoTicket; a stale    *)
(* pointer is dropped.                                                     *)
(***************************************************************************)
OpenTicketOf(chat) ==
    LET id == CUSTOMER_TICKETS[chat]
    IN  IF id # NoTicket /\ id \in DOMAIN TICKETS /\ TICKETS[id].status = "open"
        THEN id ELSE NoTicket

PointersAfterGet(chat) ==
    IF OpenTicketOf(chat) = NoTicket
    THEN [CUSTOMER_TICKETS EXCEPT ![chat] = NoTicket]
    ELSE CUSTOMER_TICKETS

(***************************************************************************)
(* forward_customer_message: the targets of a customer message.            *)
(***************************************************************************)
AllAdminTargets ==
    [i \in DOMAIN ADMIN_CHAT_IDS |-> [chatId |-> ADMIN_CHAT_IDS[i], messageId |-> 0]]

\* targets that do not look at the owner
ForwardToEntries(ticket) ==
    IF ticket.adminMessages # <<>> THEN ticket.adminMessages ELSE AllAdminTargets

ForwardTargets(ticket) ==
    LET assigned_id == ticket.assignedAdminId
        mine == SelectSeq(ticket.adminMessages, LAMBDA e : e.chatId = assigned_id)
    IN  IF assigned_id # NoAdmin
        THEN (IF mine # <<>> THEN mine
              ELSE <<[chatId |-> assigned_id, messageId |-> 0]>>)
        ELSE (IF ticket.adminMessages # <<>> THEN ticket.adminMessages
              ELSE AllAdminTargets)

\* without an owner the loop runs over the ticket's own list object
ForwardLive(ticket) ==
    ticket.assignedAdminId = NoAdmin /\ ticket.adminMessages # <<>>

(***************************************************************************)
(* text_handler of a chat without a session: relay to the workers when the *)
(* chat has an open ticket, the start prompt otherwise.                    *)
(***************************************************************************)
CustomerMessage(b, chat) ==
    LET id == OpenTicketOf(chat)
    IN  /\ handler[b].pc = "idle"
        /\ Allowed(chat)
        /\ sessions[b][chat] = NoSession
        /\ CUSTOMER_TICKETS' = PointersAfterGet(chat)
        /\ IF id = NoTicket
           THEN /\ ev' = Ev("message", chat, NoTicket, "start_prompt")
                /\ UNCHANGED handler
           ELSE /\ Cardinality(DOMAIN ADMIN_TICKET_MESSAGES) < MaxRelays
                /\ handler' = [handler EXCEPT ![b] =
                       [Idle EXCEPT !.pc = "forward", !.ticket = id, !.chat = chat,
                                    !.i = 1, !.list = ForwardTargets(TICKETS[id]),
                                    !.live = ForwardLive(TICKETS[id]),
                                    !.assigned_id = TICKETS[id].assignedAdminId]]
                /\ ev' = Ev("message", chat, id, "forwarding")
        /\ UNCHANGED <<now, DUFF_CHAT_IDS, DUFF_REQUEST_MESSAGES, USERS, ticket_counter, CONFIG_FILE, TICKETS, TICKET_RECORDS,
                       RECORDS_FILE, BANNED_CHAT_IDS, TICKET_HISTORY,
                       ADMIN_TICKET_MESSAGES, ADMIN_PROMPTS, sessions, restarts,
                       writeFailures>>
        /\ UNCHANGED <<timers, storage>>

\* the send to targets[i] returns (and is registered) or raises twice
ForwardStep(b, ok) ==
    LET h      == handler[b]
        target == h.list[h.i]
    IN  /\ h.pc = "forward"
        /\ ADMIN_TICKET_MESSAGES' =
               IF ok THEN Put(ADMIN_TICKET_MESSAGES, <<target.chatId, NewMessageId>>,
                              [ticketId |-> h.ticket,
                               botKey |-> IF h.ticket \in DOMAIN TICKETS
                                          THEN TICKETS[h.ticket].botKey ELSE b])
               ELSE ADMIN_TICKET_MESSAGES
        /\ handler' = [handler EXCEPT ![b] =
                          IF h.i < Len(h.list) THEN [h EXCEPT !.i = @ + 1] ELSE Idle]
        /\ ev' = [Ev("relay", target.chatId, h.ticket, IF ok THEN "sent" ELSE "failed")
                    EXCEPT !.n = h.assigned_id]
        /\ UNCHANGED <<now, DUFF_CHAT_IDS, DUFF_REQUEST_MESSAGES, USERS, ticket_counter, CONFIG_FILE, TICKETS, TICKET_RECORDS,
                       RECORDS_FILE, CUSTOMER_TICKETS, BANNED_CHAT_IDS, TICKET_HISTORY,
                       ADMIN_PROMPTS, sessions, restarts, writeFailures>>
        /\ UNCHANGED <<timers, storage>>

(***************************************************************************)
(* assign_ticket.                                                          *)
(***************************************************************************)
\* an assignment that does not look at the current owner
AssignAnyone(ticket_id, admin_id) ==
    IF ticket_id \notin DOMAIN TICKETS \/ TICKETS[ticket_id].status # "open"
    THEN "not_found"
    ELSE "ok"

AssignResult(ticket_id, admin_id) ==
    IF ticket_id \notin DOMAIN TICKETS \/ TICKETS[ticket_id].status # "open"
    THEN "not_found"
    ELSE IF TICKETS[ticket_id].assignedAdminId # NoAdmin
            /\ TICKETS[ticket_id].assignedAdminId # admin_id
    THEN "assigned"
    ELSE "ok"

AssignedTicket(ticket, admin_id, alias) ==
    [ticket EXCEPT !.assignedAdminId = admin_id, !.assignedAlias = alias,
                   !.acceptedAt = now]

\* update_ticket_record with the three assignment fields
AssignedRecord(record, admin_id, alias) ==
    [record EXCEPT !.assignedAdminId = admin_id, !.assignedAlias = alias,
                   !.acceptedAt = now]

(***************************************************************************)
(* accept_command / accept_callback up to the answer to the worker.        *)
(***************************************************************************)
Accept(b, admin_id, ticket_id, alias, wf) ==
    LET result == AssignResult(ticket_id, admin_id)
        hasRecord == ticket_id \in DOMAIN TICKET_RECORDS
    IN  /\ handler[b].pc = "idle"
        /\ IF result # "ok"
           THEN /\ wf = 0
                /\ ev' = Ev("accept", admin_id, ticket_id, result)
                /\ UNCHANGED <<TICKETS, TICKET_RECORDS, RECORDS_FILE, handler>>
           ELSE /\ TICKETS' = [TICKETS EXCEPT ![ticket_id] =
                                   AssignedTicket(@, admin_id, alias)]
                /\ TICKET_RECORDS' =
                       IF hasRecord
                       THEN [TICKET_RECORDS EXCEPT ![ticket_id] =
                                 AssignedRecord(@, admin_id, alias)]
                       ELSE TICKET_RECORDS
                /\ wf # 0 => hasRecord
                /\ RECORDS_FILE' = IF hasRecord /\ wf = 0 THEN TICKET_RECORDS'
                                   ELSE RECORDS_FILE
                /\ IF wf = 0
                   THEN /\ ev' = Ev("accept", admin_id, ticket_id, "ok")
                        /\ handler' = [handler EXCEPT ![b] =
                               [Idle EXCEPT !.pc = "accepted", !.ticket = ticket_id,
                                            !.who = admin_id]]
                   ELSE /\ ev' = Ev("accept", admin_id, ticket_id, "error")
                        /\ UNCHANGED handler
        /\ CountFailure(wf)
        /\ UNCHANGED <<now, DUFF_CHAT_IDS, DUFF_REQUEST_MESSAGES, USERS, ticket_counter, CONFIG_FILE, CUSTOMER_TICKETS,
                       BANNED_CHAT_IDS, TICKET_HISTORY, ADMIN_TICKET_MESSAGES,
                       ADMIN_PROMPTS, sessions, restarts>>
        /\ UNCHANGED <<timers, storage>>

(***************************************************************************)
(* update_admin_ticket_messages: the loop over the ticket's list object,   *)
(* one entry per step (its delete and edit calls change nothing here), and *)
(* the replacement of the list by kept_entries.                            *)
(***************************************************************************)
Unshare(hs, t) ==
    [x \in Tasks |-> IF hs[x].ticket = t THEN [hs[x] EXCEPT !.live = FALSE] ELSE hs[x]]

PruneStart(b) ==
    LET h == handler[b]
        t == h.ticket
    IN  /\ h.pc = "accepted"
        /\ IF t \notin DOMAIN TICKETS
           THEN /\ handler' = [handler EXCEPT ![b] = Idle]
                /\ UNCHANGED TICKETS
           ELSE IF TICKETS[t].adminMessages = <<>>
           THEN /\ handler' = [Unshare(handler, t) EXCEPT ![b] = Idle]
                /\ TICKETS' = [TICKETS EXCEPT ![t].adminMessages = <<>>]
           ELSE /\ handler' = [handler EXCEPT ![b] =
                       [h EXCEPT !.pc = "prune", !.i = 1, !.live = TRUE,
                                 !.list = TICKETS[t].adminMessages]]
                /\ UNCHANGED TICKETS
        /\ ev' = Ev("prune", h.who, t, "start")
        /\ UNCHANGED <<now, DUFF_CHAT_IDS, DUFF_REQUEST_MESSAGES, USERS, ticket_counter, CONFIG_FILE, TICKET_RECORDS, RECORDS_FILE,
                       CUSTOMER_TICKETS, BANNED_CHAT_IDS, TICKET_HISTORY,
                       ADMIN_TICKET_MESSAGES, ADMIN_PROMPTS, sessions, restarts,
                       writeFailures>>
        /\ UNCHANGED <<timers, storage>>

KeptEntries(kept, entry, accepted_chat_id) ==
    IF entry.chatId = accepted_chat_id THEN Append(kept, entry) ELSE kept

PruneStep(b) ==
    LET h    == handler[b]
        t    == h.ticket
        kept == KeptEntries(h.kept, h.list[h.i], h.who)
    IN  /\ h.pc = "prune"
        /\ IF h.i < Len(h.list)
           THEN /\ handler' = [handler EXCEPT ![b] = [h EXCEPT !.i = @ + 1, !.kept = kept]]
                /\ ev' = Ev("prune", h.who, t, "next")
                /\ UNCHANGED TICKETS
           ELSE /\ handler' = [Unshare(handler, t) EXCEPT ![b] = Idle]
                /\ TICKETS' = IF t \in DOMAIN TICKETS
                              THEN [TICKETS EXCEPT ![t].adminMessages = kept]
                              ELSE TICKETS
                /\ ev' = Ev("prune", h.who, t, "done")
        /\ UNCHANGED <<now, DUFF_CHAT_IDS, DUFF_REQUEST_MESSAGES, USERS, ticket_counter, CONFIG_FILE, TICKET_RECORDS, RECORDS_FILE,
                       CUSTOMER_TICKETS, BANNED_CHAT_IDS, TICKET_HISTORY,
                       ADMIN_TICKET_MESSAGES, ADMIN_PROMPTS, sessions, restarts,
                       writeFailures>>
        /\ UNCHANGED <<timers, storage>>

(***************************************************************************)
(* admin_reply_handler: a worker replies to a message of their chat.  The  *)
(* handler returns at once unless the message replied to is a key of       *)
(* ADMIN_TICKET_MESSAGES registered by this bot; it answers that the       *)
(* ticket is closed, or sends the reply to the ticket's chat.              *)
(***************************************************************************)
AdminReply(b, admin_id, message_id) ==
    LET key    == <<admin_id, message_id>>
        entry  == ADMIN_TICKET_MESSAGES[key]
        ticket == TICKETS[entry.ticketId]
    IN  /\ handler[b].pc = "idle"
        /\ is_admin(admin_id)
        /\ key \in DOMAIN ADMIN_TICKET_MESSAGES
        /\ entry.botKey = b
        /\ ev' = IF entry.ticketId \notin DOMAIN TICKETS \/ ticket.status # "open"
                 THEN EvAt(b, "admin_reply", admin_id, entry.ticketId, "closed")
                 ELSE [EvAt(b, "admin_reply", admin_id, entry.ticketId, "delivered")
                         EXCEPT !.n = ticket.chatId]
        /\ UNCHANGED <<now, DUFF_CHAT_IDS, DUFF_REQUEST_MESSAGES, USERS, ticket_counter,
                       CONFIG_FILE, TICKETS, TICKET_RECORDS, RECORDS_FILE,
                       CUSTOMER_TICKETS, BANNED_CHAT_IDS, TICKET_HISTORY,
                       ADMIN_TICKET_MESSAGES, ADMIN_PROMPTS, sessions, handler,
                       restarts, writeFailures>>
        /\ UNCHANGED <<timers, storage>>

(***************************************************************************)
(* close_ticket_record: the record after record.update(...).               *)
(***************************************************************************)
\* an update that leaves the record's status as it was
ClosedRecordKeepsStatus(record, close_type, closed_by, profit, duff_cut) ==
    [record EXCEPT !.closedAt = now, !.closeType = close_type,
                   !.closedBy = closed_by,
                   !.profit = IF close_type = "admin_close" THEN profit ELSE @,
                   !.duffCut = IF close_type = "admin_close" THEN duff_cut ELSE @]

ClosedRecord(record, close_type, closed_by, profit, duff_cut) ==
    [record EXCEPT !.status = "closed", !.closedAt = now, !.closeType = close_type,
                   !.closedBy = closed_by,
                   !.profit = IF close_type = "admin_close" THEN profit ELSE @,
                   !.duffCut = IF close_type = "admin_close" THEN duff_cut ELSE @]

DropPointer(pointers, chat) ==
    IF chat \in Chats THEN [pointers EXCEPT ![chat] = NoTicket] ELSE pointers

\* round(profit * DUFF_CUT_RATE, 2), profit in cents
DuffCut(profit) == (profit * DUFF_CUT_RATE) \div 100

Profits == {0, 400}

(***************************************************************************)
(* coupon_request_callback: the "Request coupon" button, up to the first   *)
(* send to the escalation pool.  A key a ticket or record does not have    *)
(* reads as FALSE, "", NoAdmin or NoValue.                                 *)
(***************************************************************************)
is_duff(chat_id) == chat_id \in DUFF_CHAT_IDS

RECURSIVE DuffSeq(_)
DuffSeq(pool) ==
    IF pool = {} THEN <<>>
    ELSE LET m == CHOOSE x \in pool : \A y \in pool : x <= y
         IN  <<m>> \o DuffSeq(pool \ {m})

\* a request any worker may make
CouponByAnyone(chat_id, ticket_id) ==
    IF ~is_admin(chat_id) THEN "not_authorized"
    ELSE IF ticket_id \notin DOMAIN TICKETS \/ TICKETS[ticket_id].status # "open"
    THEN "not_found"
    ELSE IF DUFF_CHAT_IDS = {} THEN "no_pool"
    ELSE "ok"

CouponRequestResult(chat_id, ticket_id) ==
    IF ~is_admin(chat_id) THEN "not_authorized"
    ELSE IF ticket_id \notin DOMAIN TICKETS \/ TICKETS[ticket_id].status # "open"
    THEN "not_found"
    ELSE IF TICKETS[ticket_id].assignedAdminId = NoAdmin THEN "unassigned"
    ELSE IF TICKETS[ticket_id].assignedAdminId # chat_id THEN "not_owner"
    ELSE IF DUFF_CHAT_IDS = {} THEN "no_pool"
    ELSE "ok"

CouponRequest(b, chat_id, ticket_id, alias, wf) ==
    LET result == CouponRequestResult(chat_id, ticket_id)
        hasRecord == ticket_id \in DOMAIN TICKET_RECORDS
    IN  /\ handler[b].pc = "idle"
        /\ IF result # "ok"
           THEN /\ wf = 0
                /\ ev' = EvAt(b, "coupon_request", chat_id, ticket_id, result)
                /\ UNCHANGED <<TICKETS, TICKET_RECORDS, RECORDS_FILE, handler>>
           ELSE /\ Cardinality(DOMAIN DUFF_REQUEST_MESSAGES) < MaxCoupons
                /\ TICKETS' = [TICKETS EXCEPT ![ticket_id] =
                                   [@ EXCEPT !.couponRequested = TRUE,
                                             !.couponRequestedBy = alias,
                                             !.couponRequestedAt = now]]
                /\ TICKET_RECORDS' =
                       IF hasRecord
                       THEN [TICKET_RECORDS EXCEPT ![ticket_id] =
                                 [@ EXCEPT !.couponRequested = TRUE,
                                           !.couponRequestedBy = alias,
                                           !.couponRequestedAt = now]]
                       ELSE TICKET_RECORDS
                /\ wf # 0 => hasRecord
                /\ RECORDS_FILE' = IF hasRecord /\ wf = 0 THEN TICKET_RECORDS'
                                   ELSE RECORDS_FILE
                /\ IF wf = 0
                   THEN /\ ev' = EvAt(b, "coupon_request", chat_id, ticket_id, "ok")
                        /\ handler' = [handler EXCEPT ![b] =
                               [Idle EXCEPT !.pc = "coupon", !.ticket = ticket_id,
                                            !.who = chat_id, !.i = 1,
                                            !.list = DuffSeq(DUFF_CHAT_IDS)]]
                   ELSE /\ ev' = EvAt(b, "coupon_request", chat_id, ticket_id, "error")
                        /\ UNCHANGED handler
        /\ CountFailure(wf)
        /\ UNCHANGED <<now, DUFF_CHAT_IDS, DUFF_REQUEST_MESSAGES, USERS, ticket_counter,
                       CONFIG_FILE, CUSTOMER_TICKETS, BANNED_CHAT_IDS, TICKET_HISTORY,
                       ADMIN_TICKET_MESSAGES, ADMIN_PROMPTS, sessions, restarts>>
        /\ UNCHANGED <<timers, storage>>

\* the id the transport gives the next request message that gets registered
NewDuffMessageId == Cardinality(DOMAIN DUFF_REQUEST_MESSAGES) + 1

\* a fan-out that registers a request also when its send raised
DuffRegisteredAlways(duff_id, ticket_id, bot_key, ok) ==
    Put(DUFF_REQUEST_MESSAGES, <<duff_id, NewDuffMessageId>>,
        [ticketId |-> ticket_id, botKey |-> bot_key])

\* DUFF_REQUEST_MESSAGES after the send to duff_id returned (ok) or raised
DuffRegistered(duff_id, ticket_id, bot_key, ok) ==
    IF ok
    THEN Put(DUFF_REQUEST_MESSAGES, <<duff_id, NewDuffMessageId>>,
             [ticketId |-> ticket_id, botKey |-> bot_key])
    ELSE DUFF_REQUEST_MESSAGES

\* the loop over DUFF_CHAT_IDS: the send to the i-th member returns or raises
CouponStep(b, ok) ==
    LET h    == handler[b]
        t    == h.ticket
        duff == h.list[h.i]
        last == h.i = Len(h.list)
    IN  /\ h.pc = "coupon"
        /\ DUFF_REQUEST_MESSAGES' = DuffRegistered(duff, t, TICKETS[t].botKey, ok)
        /\ handler' = [handler EXCEPT ![b] =
                          IF last THEN Idle
                          ELSE [h EXCEPT !.i = @ + 1, !.failed = @ \/ ~ok]]
        /\ ev' = [EvAt(b, "coupon_fanout", duff, t, IF ok THEN "sent" ELSE "failed")
                    EXCEPT !.n = IF last THEN 1 ELSE 0]
        /\ UNCHANGED <<now, DUFF_CHAT_IDS, USERS, ticket_counter, CONFIG_FILE, TICKETS,
                       TICKET_RECORDS, RECORDS_FILE, CUSTOMER_TICKETS, BANNED_CHAT_IDS,
                       TICKET_HISTORY, ADMIN_TICKET_MESSAGES, ADMIN_PROMPTS, sessions,
                       restarts, writeFailures>>
        /\ UNCHANGED <<timers, storage>>

(***************************************************************************)
(* coupon_command and duff_reply_handler: a member of the pool provides    *)
(* the coupon, by /coupon <ticket_id> <text> or by replying to a request   *)
(* message.  The statements from the stamping on are the same in both; the *)
(* send to the assigned worker returns (ok) or raises.                     *)
(***************************************************************************)
CouponTexts == {<<>>, <<"c">>}

\* a coupon anyone may provide
ProvideByAnyone(chat_id, known, ticket_id, text) ==
    IF ~known THEN "no_entry"
    ELSE IF ticket_id \notin DOMAIN TICKETS \/ TICKETS[ticket_id].status # "open"
    THEN "not_found"
    ELSE IF TICKETS[ticket_id].assignedAdminId = NoAdmin THEN "unassigned"
    ELSE IF text = <<>> THEN "no_text"
    ELSE "ok"

\* the checks of duff_reply_handler; coupon_command makes them with its
\* usage check (no text) before the look-up of the ticket
ProvideResult(chat_id, known, ticket_id, text) ==
    IF ~is_duff(chat_id) THEN "ignored"
    ELSE IF ~known THEN "no_entry"
    ELSE IF ticket_id \notin DOMAIN TICKETS \/ TICKETS[ticket_id].status # "open"
    THEN "not_found"
    ELSE IF TICKETS[ticket_id].assignedAdminId = NoAdmin THEN "unassigned"
    ELSE IF text = <<>> THEN "no_text"
    ELSE "ok"

Provide(b, op, chat_id, known, ticket_id, text, wf, ok) ==
    LET result == ProvideResult(chat_id, known, ticket_id, text)
        hasRecord == ticket_id \in DOMAIN TICKET_RECORDS
    IN  /\ handler[b].pc = "idle"
        /\ IF result # "ok"
           THEN /\ wf = 0
                /\ ok
                /\ ev' = EvText(b, op, chat_id, ticket_id, result, text)
                /\ UNCHANGED <<TICKETS, TICKET_RECORDS, RECORDS_FILE>>
           ELSE /\ TICKETS' = [TICKETS EXCEPT ![ticket_id] =
                                   [@ EXCEPT !.couponProvidedBy = chat_id,
                                             !.couponProvidedAt = now,
                                             !.couponText = text]]
                /\ TICKET_RECORDS' =
                       IF hasRecord
                       THEN [TICKET_RECORDS EXCEPT ![ticket_id] =
                                 [@ EXCEPT !.couponProvidedBy = chat_id,
                                           !.couponProvidedAt = now]]
                       ELSE TICKET_RECORDS
                /\ wf # 0 => hasRecord /\ ok
                /\ RECORDS_FILE' = IF hasRecord /\ wf = 0 THEN TICKET_RECORDS'
                                   ELSE RECORDS_FILE
                /\ ev' = [EvText(b, op, chat_id, ticket_id,
                                 IF wf # 0 THEN "error"
                                 ELSE IF ok THEN "forwarded" ELSE "send_failed", text)
                            EXCEPT !.n = IF wf = 0 /\ ok
                                         THEN TICKETS[ticket_id].assignedAdminId
                                         ELSE 0]
        /\ CountFailure(wf)
        /\ UNCHANGED <<now, DUFF_CHAT_IDS, DUFF_REQUEST_MESSAGES, USERS, ticket_counter,
                       CONFIG_FILE, CUSTOMER_TICKETS, BANNED_CHAT_IDS, TICKET_HISTORY,
                       ADMIN_TICKET_MESSAGES, ADMIN_PROMPTS, sessions, handler,
                       restarts>>
        /\ UNCHANGED <<timers, storage>>

CouponCommand(b, chat_id, ticket_id, text, wf, ok) ==
    Provide(b, "coupon", chat_id, text # <<>>, ticket_id, text, wf, ok)

\* the message replied to is looked up in DUFF_REQUEST_MESSAGES
DuffReply(b, chat_id, message_id, text, wf, ok) ==
    LET key   == <<chat_id, message_id>>
        known == key \in DOMAIN DUFF_REQUEST_MESSAGES
    IN  Provide(b, "duff_reply", chat_id, known,
                IF known THEN DUFF_REQUEST_MESSAGES[key].ticketId ELSE NoTicket,
                text, wf, ok)

(***************************************************************************)
(* close_ticket_callback: the "Close ticket" button.                       *)
(***************************************************************************)
CloseButton(b, admin_id, ticket_id, wf) ==
    LET present == ticket_id \in DOMAIN TICKETS
        hasRecord == ticket_id \in DOMAIN TICKET_RECORDS
    IN  /\ handler[b].pc = "idle"
        /\ IF ~present \/ TICKETS[ticket_id].status = "closed"
           THEN /\ wf = 0
                /\ ev' = Ev("close_button", admin_id, ticket_id, "already_closed")
                /\ UNCHANGED <<TICKETS, TICKET_RECORDS, RECORDS_FILE, CUSTOMER_TICKETS>>
           ELSE /\ TICKETS' = [TICKETS EXCEPT ![ticket_id].status = "closed"]
                /\ CUSTOMER_TICKETS' = DropPointer(CUSTOMER_TICKETS, TICKETS[ticket_id].chatId)
                /\ TICKET_RECORDS' =
                       IF hasRecord
                       THEN [TICKET_RECORDS EXCEPT ![ticket_id] =
                                 ClosedRecord(@, "manual_close", admin_id, NoValue, NoValue)]
                       ELSE TICKET_RECORDS
                /\ wf # 0 => hasRecord
                /\ RECORDS_FILE' = IF hasRecord /\ wf = 0 THEN TICKET_RECORDS'
                                   ELSE RECORDS_FILE
                /\ ev' = Ev("close_button", admin_id, ticket_id,
                            IF wf = 0 THEN "closed" ELSE "error")
        /\ CountFailure(wf)
        /\ UNCHANGED <<now, DUFF_CHAT_IDS, DUFF_REQUEST_MESSAGES, USERS, ticket_counter, CONFIG_FILE, BANNED_CHAT_IDS, TICKET_HISTORY,
                       ADMIN_TICKET_MESSAGES, ADMIN_PROMPTS, sessions, handler, restarts>>
        /\ UNCHANGED <<timers, storage>>

(***************************************************************************)
(* close_command and close_ticket_with_values (the same statements): the   *)
(* close with profit and remarks.                                          *)
(***************************************************************************)
CloseWithValues(op, admin_id, ticket_id, profit, wf) ==
    LET present == ticket_id \in DOMAIN TICKETS
        hasRecord == ticket_id \in DOMAIN TICKET_RECORDS
        chat_id == IF present THEN TICKETS[ticket_id].chatId
                   ELSE TICKET_RECORDS[ticket_id].chatId
    IN  IF present /\ TICKETS[ticket_id].status = "closed"
        THEN /\ wf = 0
             /\ ev' = Ev(op, admin_id, ticket_id, "already_closed")
             /\ UNCHANGED <<TICKETS, TICKET_RECORDS, RECORDS_FILE, CUSTOMER_TICKETS>>
        ELSE IF ~hasRecord
        THEN /\ wf = 0
             /\ ev' = Ev(op, admin_id, ticket_id, "not_found")
             /\ UNCHANGED <<TICKETS, TICKET_RECORDS, RECORDS_FILE, CUSTOMER_TICKETS>>
        ELSE /\ TICKET_RECORDS' = [TICKET_RECORDS EXCEPT ![ticket_id] =
                    ClosedRecord(@, "admin_close", admin_id, profit, DuffCut(profit))]
             /\ IF wf = 0
                THEN /\ RECORDS_FILE' = TICKET_RECORDS'
                     /\ TICKETS' = IF present
                                   THEN [TICKETS EXCEPT ![ticket_id].status = "closed"]
                                   ELSE TICKETS
                     /\ CUSTOMER_TICKETS' = DropPointer(CUSTOMER_TICKETS, chat_id)
                     /\ ev' = Ev(op, admin_id, ticket_id, "closed")
                ELSE /\ ev' = Ev(op, admin_id, ticket_id, "error")
                     /\ UNCHANGED <<RECORDS_FILE, TICKETS, CUSTOMER_TICKETS>>

\* /close <ticket_id> <profit> "remarks", registered for the food bot only
CloseCommand(admin_id, ticket_id, profit, wf) ==
    /\ handler["food"].pc = "idle"
    /\ CloseWithValues("close_command", admin_id, ticket_id, profit, wf)
    /\ CountFailure(wf)
    /\ UNCHANGED <<now, DUFF_CHAT_IDS, DUFF_REQUEST_MESSAGES, USERS, ticket_counter, CONFIG_FILE, BANNED_CHAT_IDS, TICKET_HISTORY,
                   ADMIN_TICKET_MESSAGES, ADMIN_PROMPTS, sessions, handler, restarts>>
    /\ UNCHANGED <<timers, storage>>

\* worker_close_callback: the worker panel asks for the close payload
PanelPrompt(b, admin_id) ==
    /\ handler[b].pc = "idle"
    /\ ADMIN_PROMPTS' = [ADMIN_PROMPTS EXCEPT ![admin_id] = "close"]
    /\ ev' = Ev("panel_prompt", admin_id, NoTicket, "prompt")
    /\ UNCHANGED <<now, DUFF_CHAT_IDS, DUFF_REQUEST_MESSAGES, USERS, ticket_counter, CONFIG_FILE, TICKETS, TICKET_RECORDS,
                   RECORDS_FILE, CUSTOMER_TICKETS, BANNED_CHAT_IDS, TICKET_HISTORY,
                   ADMIN_TICKET_MESSAGES, sessions, handler, restarts, writeFailures>>
    /\ UNCHANGED <<timers, storage>>

\* admin_prompt_handler, action "close", with a well-formed payload
PanelClose(b, admin_id, ticket_id, profit, wf) ==
    /\ handler[b].pc = "idle"
    /\ ADMIN_PROMPTS[admin_id] = "close"
    /\ ADMIN_PROMPTS' = [ADMIN_PROMPTS EXCEPT ![admin_id] = ""]
    /\ CloseWithValues("panel_close", admin_id, ticket_id, profit, wf)
    /\ CountFailure(wf)
    /\ UNCHANGED <<now, DUFF_CHAT_IDS, DUFF_REQUEST_MESSAGES, USERS, ticket_counter, CONFIG_FILE, BANNED_CHAT_IDS, TICKET_HISTORY,
                   ADMIN_TICKET_MESSAGES, sessions, handler, restarts>>
    /\ UNCHANGED <<timers, storage>>

(***************************************************************************)
(* ban_ticket_callback: the "Ban customer" button of a ticket.             *)
(***************************************************************************)
BanButton(b, admin_id, ticket_id, wf) ==
    LET present == ticket_id \in DOMAIN TICKETS
        hasRecord == ticket_id \in DOMAIN TICKET_RECORDS
        chat == TICKETS[ticket_id].chatId
    IN  /\ handler[b].pc = "idle"
        /\ IF ~present
           THEN /\ wf = 0
                /\ ev' = Ev("ban_button", admin_id, ticket_id, "not_found")
                /\ UNCHANGED <<TICKETS, TICKET_RECORDS, RECORDS_FILE, CUSTOMER_TICKETS,
                               BANNED_CHAT_IDS, CONFIG_FILE>>
           ELSE /\ BANNED_CHAT_IDS' = BANNED_CHAT_IDS \cup {chat}
                /\ IF wf = 1
                   THEN \* save_config raises
                        /\ ev' = Ev("ban_button", admin_id, ticket_id, "error")
                        /\ UNCHANGED <<TICKETS, TICKET_RECORDS, RECORDS_FILE,
                                       CUSTOMER_TICKETS, CONFIG_FILE>>
                   ELSE /\ CONFIG_FILE' = ConfigNow(ticket_counter, BANNED_CHAT_IDS')
                        /\ TICKETS' = [TICKETS EXCEPT ![ticket_id].status = "closed"]
                        /\ CUSTOMER_TICKETS' = DropPointer(CUSTOMER_TICKETS, chat)
                        /\ TICKET_RECORDS' =
                               IF hasRecord
                               THEN [TICKET_RECORDS EXCEPT ![ticket_id] =
                                         ClosedRecord(@, "banned", admin_id, NoValue, NoValue)]
                               ELSE TICKET_RECORDS
                        /\ wf = 2 => hasRecord
                        /\ RECORDS_FILE' = IF hasRecord /\ wf = 0 THEN TICKET_RECORDS'
                                           ELSE RECORDS_FILE
                        /\ ev' = [Ev("ban_button", admin_id, ticket_id,
                                       IF wf = 0 THEN "banned" ELSE "error")
                                    EXCEPT !.n = chat]
        /\ CountFailure(wf)
        /\ UNCHANGED <<now, DUFF_CHAT_IDS, DUFF_REQUEST_MESSAGES, USERS, ticket_counter, TICKET_HISTORY, ADMIN_TICKET_MESSAGES,
                       ADMIN_PROMPTS, sessions, handler, restarts>>
        /\ UNCHANGED <<timers, storage>>

(***************************************************************************)
(* close_tickets_for_chat: every open ticket of TICKETS for the chat, in   *)
(* the order of the dict (ticket ids ascending).                           *)
(***************************************************************************)
OpenTicketsOf(chat) ==
    {t \in DOMAIN TICKETS : TICKETS[t].chatId = chat /\ TICKETS[t].status = "open"}

\* the first n of a set of ticket ids
FirstIds(ids, n) == {t \in ids : Cardinality({u \in ids : u < t}) < n}

\* a loop that removes the tickets it closes
TicketsDropped(ids) == [t \in DOMAIN TICKETS \ ids |-> TICKETS[t]]

TicketsClosed(ids) ==
    [t \in DOMAIN TICKETS |->
        IF t \in ids THEN [TICKETS[t] EXCEPT !.status = "closed"] ELSE TICKETS[t]]

RecordsClosed(ids, close_type, closed_by) ==
    [t \in DOMAIN TICKET_RECORDS |->
        IF t \in ids
        THEN ClosedRecord(TICKET_RECORDS[t], close_type, closed_by, NoValue, NoValue)
        ELSE TICKET_RECORDS[t]]

(***************************************************************************)
(* ban_command: /ban <chat_id>, registered for the food bot only.  Its     *)
(* writes are one save_ticket_records per closed ticket, then save_config. *)
(***************************************************************************)
BanCommand(admin_id, chat, wf) ==
    LET open  == OpenTicketsOf(chat)
        k     == Cardinality(open)
        done  == IF wf = 0 \/ wf > k THEN open ELSE FirstIds(open, wf)
        saved == IF wf = 0 \/ wf > k THEN open ELSE FirstIds(open, wf - 1)
    IN  /\ handler["food"].pc = "idle"
        /\ wf <= k + 1
        /\ BANNED_CHAT_IDS' = BANNED_CHAT_IDS \cup {chat}
        /\ TICKETS' = TicketsClosed(done)
        /\ TICKET_RECORDS' = RecordsClosed(done, "banned", admin_id)
        /\ RECORDS_FILE' =
               IF saved = {} THEN RECORDS_FILE
               ELSE [t \in DOMAIN TICKET_RECORDS |->
                        IF t \in saved THEN TICKET_RECORDS'[t] ELSE TICKET_RECORDS[t]]
        /\ CUSTOMER_TICKETS' = IF wf = 0 \/ wf > k THEN DropPointer(CUSTOMER_TICKETS, chat)
                               ELSE CUSTOMER_TICKETS
        /\ CONFIG_FILE' = IF wf = 0 THEN ConfigNow(ticket_counter, BANNED_CHAT_IDS')
                          ELSE CONFIG_FILE
        /\ ev' = [Ev("ban_command", admin_id, NoTicket,
                       IF wf = 0 THEN "banned" ELSE "error") EXCEPT !.n = chat]
        /\ CountFailure(wf)
        /\ UNCHANGED <<now, DUFF_CHAT_IDS, DUFF_REQUEST_MESSAGES, USERS, ticket_counter, TICKET_HISTORY, ADMIN_TICKET_MESSAGES,
                       ADMIN_PROMPTS, sessions, handler, restarts>>
        /\ UNCHANGED <<timers, storage>>

\* unban_command
UnbanCommand(admin_id, chat, wf) ==
    /\ handler["food"].pc = "idle"
    /\ IF chat \notin BANNED_CHAT_IDS
       THEN /\ wf = 0
            /\ ev' = Ev("unban_command", admin_id, NoTicket, "not_banned")
            /\ UNCHANGED <<BANNED_CHAT_IDS, CONFIG_FILE>>
       ELSE /\ wf <= 1
            /\ BANNED_CHAT_IDS' = BANNED_CHAT_IDS \ {chat}
            /\ CONFIG_FILE' = IF wf = 0 THEN ConfigNow(ticket_counter, BANNED_CHAT_IDS')
                              ELSE CONFIG_FILE
            /\ ev' = Ev("unban_command", admin_id, NoTicket,
                        IF wf = 0 THEN "unbanned" ELSE "error")
    /\ CountFailure(wf)
    /\ UNCHANGED <<now, DUFF_CHAT_IDS, DUFF_REQUEST_MESSAGES, USERS, ticket_counter, TICKETS, TICKET_RECORDS, RECORDS_FILE,
                   CUSTOMER_TICKETS, TICKET_HISTORY, ADMIN_TICKET_MESSAGES,
                   ADMIN_PROMPTS, sessions, handler, restarts>>
    /\ UNCHANGED <<timers, storage>>

(***************************************************************************)
(* Address labels of a profile.  A label is a text whose characters are    *)
(* words, blanks and the pictograms of the buttons.                        *)
(***************************************************************************)
LABEL_HOME == <<"house", " ", "Home">>
LABEL_WORK == <<"office", " ", "Work">>
LABEL_OTHER == <<"pin", " ", "Other">>
LABEL_CUSTOM == <<"pen", " ", "Custom">>

\* resolve_label_choice returns None
NoLabel == <<>>

normalize_label(value) == IF value = <<>> THEN <<>> ELSE Strip(value)

LowerWord(w) ==
    CASE w \in {"Home", "HOME"} -> "home"
      [] w \in {"Work", "WORK"} -> "work"
      [] w = "Other" -> "other"
      [] OTHER -> w

LowerWords(s) == [i \in DOMAIN s |-> LowerWord(s[i])]

is_home_label(label) == LowerWords(normalize_label(label)) = <<"home">>

is_work_label(label) == LowerWords(normalize_label(label)) = <<"work">>

\* the positions of the home address and of the work address (0 for None)
\* and of the others
address_slots(user) ==
    LET addresses == user.addresses
        first(S) == IF S = {} THEN 0 ELSE CHOOSE i \in S : \A j \in S : i <= j
        home == first({i \in DOMAIN addresses : is_home_label(addresses[i].label)})
        work == first({i \in DOMAIN addresses : is_work_label(addresses[i].label)})
    IN  [home |-> home, work |-> work,
         others |-> {i \in DOMAIN addresses :
                        /\ home = 0 \/ addresses[i] # addresses[home]
                        /\ work = 0 \/ addresses[i] # addresses[work]}]

\* the id is made of the clock alone; "x" marks a collision
create_address_id(user) ==
    LET address_id == [t |-> now, x |-> FALSE]
    IN  IF \E i \in DOMAIN user.addresses : user.addresses[i].id = address_id
        THEN [t |-> now, x |-> TRUE]
        ELSE address_id

\* a resolution that always answers "Other" to the Other button
ResolveOtherAlways(choice, user) ==
    LET label == normalize_label(choice)
    IN  IF label = LABEL_HOME THEN <<"Home">>
        ELSE IF label = LABEL_WORK THEN <<"Work">>
        ELSE IF label = LABEL_OTHER THEN <<"Other">>
        ELSE NoLabel

resolve_label_choice(choice, user) ==
    LET label == normalize_label(choice)
        others == {i \in DOMAIN user.addresses :
                      /\ ~is_home_label(user.addresses[i].label)
                      /\ ~is_work_label(user.addresses[i].label)}
    IN  IF label = LABEL_HOME THEN <<"Home">>
        ELSE IF label = LABEL_WORK THEN <<"Work">>
        ELSE IF label = LABEL_OTHER
        THEN (IF others # {} THEN <<"Other", " ", "2">> ELSE <<"Other">>)
        ELSE NoLabel

MaxAddresses == 4

\* what the customer sends at the label prompt: a button, or a text
LabelChoices ==
    {LABEL_HOME, LABEL_WORK, LABEL_OTHER, LABEL_CUSTOM, <<"Home">>,
     <<" ", "pin", " ", "Other">>}

\* a second Home in the list
AddedAlways(user, label) ==
    [user EXCEPT !.addresses = Append(@, [id |-> create_address_id(user),
                                          label |-> label])]

\* the profile after the address in progress got its label: Home and Work
\* are single slots, whose address a new one replaces
Added(user, label) ==
    LET slots == address_slots(user)
        slot == IF is_home_label(label) THEN slots.home
                ELSE IF is_work_label(label) THEN slots.work ELSE 0
        entry == [id |-> create_address_id(user), label |-> label]
    IN  IF slot # 0 THEN [user EXCEPT !.addresses[slot] = entry]
        ELSE [user EXCEPT !.addresses = Append(@, entry)]

\* the label step of adding an address (state AWAIT_ADD_ADDRESS_LABEL)
AddAddress(user_id, choice) ==
    LET user == USERS[user_id]
        label == resolve_label_choice(choice, user)
        said(res) == EvText("food", "add_address", user_id, NoTicket, res,
                            [choice |-> choice, label |-> label])
    IN  /\ handler["food"].pc = "idle"
        /\ IF label = NoLabel
           THEN /\ ev' = said("reprompt")
                /\ UNCHANGED USERS
           ELSE IF Len(Added(user, label).addresses) > MaxAddresses
           THEN /\ ev' = said("full")
                /\ UNCHANGED USERS
           ELSE /\ USERS' = [USERS EXCEPT ![user_id] = Added(user, label)]
                /\ ev' = said("saved")
        /\ UNCHANGED <<now, DUFF_CHAT_IDS, DUFF_REQUEST_MESSAGES, ticket_counter,
                       CONFIG_FILE, TICKETS, TICKET_RECORDS, RECORDS_FILE,
                       CUSTOMER_TICKETS, BANNED_CHAT_IDS, TICKET_HISTORY,
                       ADMIN_TICKET_MESSAGES, ADMIN_PROMPTS, sessions, handler,
                       restarts, writeFailures>>
        /\ UNCHANGED <<timers, storage>>

\* deleting an address from the manage list (state AWAIT_DELETE_CONFIRM)
DeleteAddress(user_id, i) ==
    LET user == USERS[user_id]
    IN  /\ handler["food"].pc = "idle"
        /\ i \in DOMAIN user.addresses
        /\ USERS' = [USERS EXCEPT ![user_id].addresses =
                         [k \in 1..(Len(@) - 1) |-> IF k < i THEN @[k] ELSE @[k + 1]]]
        /\ ev' = [EvAt("food", "delete_address", user_id, NoTicket, "deleted")
                      EXCEPT !.n = i]
        /\ UNCHANGED <<now, DUFF_CHAT_IDS, DUFF_REQUEST_MESSAGES, ticket_counter,
                       CONFIG_FILE, TICKETS, TICKET_RECORDS, RECORDS_FILE,
                       CUSTOMER_TICKETS, BANNED_CHAT_IDS, TICKET_HISTORY,
                       ADMIN_TICKET_MESSAGES, ADMIN_PROMPTS, sessions, handler,
                       restarts, writeFailures>>
        /\ UNCHANGED <<timers, storage>>

(***************************************************************************)
(* The order of a customer with a profile: parse_subtotal and              *)
(* finalize_order.                                                         *)
(***************************************************************************)
Digits == {"1", "2"}

\* the last position of the run of digits that starts at i
RECURSIVE RunEnd(_, _)
RunEnd(s, i) == IF i < Len(s) /\ s[i + 1] \in Digits THEN RunEnd(s, i + 1) ELSE i

\* re.search(r"(\d+(\.\d+)?)", text.replace(",", "")): the number as written,
\* <<>> for None
parse_subtotal(text) ==
    LET clean == SelectSeq(text, LAMBDA c : c # ",")
        starts == {i \in DOMAIN clean : clean[i] \in Digits}
        first == CHOOSE i \in starts : \A j \in starts : i <= j
        whole == RunEnd(clean, first)
        last == IF /\ whole + 1 < Len(clean)
                   /\ clean[whole + 1] = "."
                   /\ clean[whole + 2] \in Digits
                THEN RunEnd(clean, whole + 2) ELSE whole
    IN  IF starts = {} THEN <<>> ELSE SubSeq(clean, first, last)

SubtotalInputs == {<<"$", "1", ",", "2", ".", "1", "x">>, <<"a">>}

\* finalize_order up to the first send of send_admin_ticket
FinalizeOrder(user_id, address, subtotal, maxTickets, wf) ==
    LET id == ticket_counter + 1
        answers == [k \in {"addressLabel", "subtotal"} |->
                       IF k = "subtotal" THEN subtotal ELSE address.label]
        ticket == NewTicket(user_id, "Food", answers, "food")
        record == NewRecord(user_id, "Food", "food")
    IN  /\ ticket_counter < TicketCounterDefault + maxTickets
        /\ ticket_counter' = id
        /\ IF wf = 1
           THEN \* next_ticket_id: save_config raises
                /\ ev' = EvAt("food", "order", user_id, NoTicket, "error")
                /\ UNCHANGED <<CONFIG_FILE, TICKETS, TICKET_RECORDS, RECORDS_FILE,
                               CUSTOMER_TICKETS, handler>>
           ELSE /\ CONFIG_FILE' = ConfigNow(id, BANNED_CHAT_IDS)
                /\ TICKETS' = Put(TICKETS, id, ticket)
                /\ TICKET_RECORDS' = Put(TICKET_RECORDS, id, record)
                /\ IF wf = 2
                   THEN \* create_ticket_record: save_ticket_records raises
                        /\ ev' = EvAt("food", "order", user_id, id, "error")
                        /\ UNCHANGED <<RECORDS_FILE, CUSTOMER_TICKETS, handler>>
                   ELSE /\ RECORDS_FILE' = TICKET_RECORDS'
                        /\ CUSTOMER_TICKETS' = [CUSTOMER_TICKETS EXCEPT ![user_id] = id]
                        /\ handler' = [handler EXCEPT !["food"] =
                               [Idle EXCEPT !.pc = "order_fanout", !.ticket = id,
                                            !.chat = user_id, !.i = 1]]
                        /\ ev' = EvAt("food", "order", user_id, id, "created")

\* the subtotal step of the profile flow (state AWAIT_SUBTOTAL): a text
\* without number is asked again, a number completes the order
SubtotalStep(user_id, text, maxTickets, wf) ==
    LET user == USERS[user_id]
        subtotal == parse_subtotal(text)
    IN  /\ handler["food"].pc = "idle"
        /\ Allowed(user_id)
        /\ user.addresses # <<>>
        /\ IF subtotal = <<>>
           THEN /\ wf = 0
                /\ ev' = EvText("food", "order", user_id, NoTicket, "reprompt", text)
                /\ UNCHANGED <<ticket_counter, CONFIG_FILE, TICKETS, TICKET_RECORDS,
                               RECORDS_FILE, CUSTOMER_TICKETS, handler>>
           ELSE FinalizeOrder(user_id, user.addresses[1], subtotal, maxTickets, wf)
        /\ CountFailure(wf)
        /\ UNCHANGED <<now, DUFF_CHAT_IDS, DUFF_REQUEST_MESSAGES, USERS,
                       BANNED_CHAT_IDS, TICKET_HISTORY, ADMIN_TICKET_MESSAGES,
                       ADMIN_PROMPTS, sessions, restarts>>
        /\ UNCHANGED <<timers, storage>>

\* finalize_order from send_admin_ticket on: one send per step; after the
\* last, the replies and delete_profile_session, its write of sessions.json
\* taken as one step
OrderFanoutStep(ok) ==
    LET h     == handler["food"]
        t     == h.ticket
        admin == ADMIN_CHAT_IDS[h.i]
        entry == [chatId |-> admin, messageId |-> NewMessageId]
        hs    == IF ok /\ t \in DOMAIN TICKETS THEN AppendLive(handler, t, entry)
                 ELSE handler
        last  == h.i = Len(ADMIN_CHAT_IDS)
    IN  /\ h.pc = "order_fanout"
        /\ last => STORAGE_LOCK = ""
        /\ IF ok
           THEN /\ ADMIN_TICKET_MESSAGES' =
                       Put(ADMIN_TICKET_MESSAGES, <<admin, NewMessageId>>,
                           [ticketId |-> t, botKey |-> "food"])
                /\ TICKETS' = IF t \in DOMAIN TICKETS
                              THEN [TICKETS EXCEPT ![t].adminMessages = Append(@, entry)]
                              ELSE TICKETS
           ELSE UNCHANGED <<ADMIN_TICKET_MESSAGES, TICKETS>>
        /\ handler' = [hs EXCEPT !["food"] =
                          IF last THEN Idle
                          ELSE [h EXCEPT !.i = @ + 1, !.failed = @ \/ ~ok]]
        /\ SESSIONS' = IF last THEN Pop(SESSIONS, h.chat) ELSE SESSIONS
        /\ SESSIONS_FILE' = IF last THEN SESSIONS' ELSE SESSIONS_FILE
        /\ ev' = EvAt("food", "order_fanout", admin, t,
                    IF ~last THEN (IF ok THEN "sent" ELSE "failed")
                    ELSE IF ok /\ ~h.failed THEN "all_sent" ELSE "some_failed")
        /\ UNCHANGED <<now, DUFF_CHAT_IDS, DUFF_REQUEST_MESSAGES, USERS, ticket_counter,
                       CONFIG_FILE, TICKET_RECORDS, RECORDS_FILE, CUSTOMER_TICKETS,
                       BANNED_CHAT_IDS, TICKET_HISTORY, ADMIN_PROMPTS, sessions,
                       restarts, writeFailures, timers, TMP_FILE, STORAGE_LOCK>>

(***************************************************************************)
(* summarize_report: one pass over the ledger.  Money is in cents.         *)
(***************************************************************************)
NoTotals ==
    [total |-> 0, open |-> 0, closed_with_remarks |-> 0, closed_no_order |-> 0,
     banned |-> 0, profit_total |-> 0, duff_total |-> 0]

\* record.get(key) or fallback
OrElse(value, fallback) == IF value \in {NoValue, 0} THEN fallback ELSE value

\* a pass whose "banned" branch lacks its continue
ReportStepNoContinue(totals, record) ==
    LET counted == [totals EXCEPT !.total = @ + 1]
        profit_value == OrElse(record.profit, 0)
    IN  IF record.status = "open"
        THEN [counted EXCEPT !.open = @ + 1]
        ELSE IF record.closeType = "admin_close"
        THEN [counted EXCEPT
                !.closed_with_remarks = @ + 1,
                !.profit_total = @ + profit_value,
                !.duff_total = @ + OrElse(record.duffCut,
                                          (profit_value * DUFF_CUT_RATE) \div 100)]
        ELSE IF record.closeType = "banned"
        THEN [counted EXCEPT !.banned = @ + 1, !.closed_no_order = @ + 1]
        ELSE [counted EXCEPT !.closed_no_order = @ + 1]

\* the body of the loop, for one record
ReportStep(totals, record) ==
    LET counted == [totals EXCEPT !.total = @ + 1]
        profit_value == OrElse(record.profit, 0)
    IN  IF record.status = "open"
        THEN [counted EXCEPT !.open = @ + 1]
        ELSE IF record.closeType = "admin_close"
        THEN [counted EXCEPT
                !.closed_with_remarks = @ + 1,
                !.profit_total = @ + profit_value,
                !.duff_total = @ + OrElse(record.duffCut,
                                          (profit_value * DUFF_CUT_RATE) \div 100)]
        ELSE IF record.closeType = "banned"
        THEN [counted EXCEPT !.banned = @ + 1]
        ELSE [counted EXCEPT !.closed_no_order = @ + 1]

\* the loop over TICKET_RECORDS.values(), in the order of insertion
RECURSIVE ReportLoop(_, _, _)
ReportLoop(records, ids, totals) ==
    IF ids = {} THEN totals
    ELSE LET t == CHOOSE x \in ids : \A y \in ids : x <= y
         IN  ReportLoop(records, ids \ {t}, ReportStep(totals, records[t]))

summarize_report == ReportLoop(TICKET_RECORDS, DOMAIN TICKET_RECORDS, NoTotals)

\* report_command: /report, registered for the food bot only
ReportCommand(admin_id) ==
    /\ handler["food"].pc = "idle"
    /\ is_admin(admin_id)
    /\ ev' = EvText("food", "report", admin_id, NoTicket, "report",
                    summarize_report @@ [last |-> ticket_counter])
    /\ UNCHANGED <<now, DUFF_CHAT_IDS, DUFF_REQUEST_MESSAGES, USERS, ticket_counter,
                   CONFIG_FILE, TICKETS, TICKET_RECORDS, RECORDS_FILE,
                   CUSTOMER_TICKETS, BANNED_CHAT_IDS, TICKET_HISTORY,
                   ADMIN_TICKET_MESSAGES, ADMIN_PROMPTS, sessions, handler, restarts,
                   writeFailures>>
    /\ UNCHANGED <<timers, storage>>

(***************************************************************************)
(* The updates the transport can deliver, and the specification.           *)
(***************************************************************************)
InputTickets == DOMAIN TICKETS \cup DOMAIN TICKET_RECORDS \cup {ticket_counter + 1}

CustomerStep(maxTickets) ==
    \E b \in Bots, chat \in Chats :
        \/ StartFlow(b, chat)
        \/ Cancel(b, chat)
        \/ \E text \in AnswerInputs : Answer(b, chat, text)
        \/ \E text \in ConfirmInputs, wf \in WriteOutcomes(2) :
               Confirm(b, chat, text, maxTickets, wf)
        \/ CustomerMessage(b, chat)
        \/ \E ok \in BOOLEAN : BanGuard(b, chat, ok)

TransportStep ==
    \E b \in Bots :
        \/ \E ok \in BOOLEAN : FanoutStep(b, ok)
        \/ \E ok \in BOOLEAN : ForwardStep(b, ok)
        \/ PruneStart(b)
        \/ PruneStep(b)

WorkerStep ==
    \E b \in Bots, admin_id \in Admins :
        \/ \E t \in InputTickets, alias \in Aliases, wf \in WriteOutcomes(1) :
               Accept(b, admin_id, t, alias, wf)
        \/ \E t \in InputTickets, wf \in WriteOutcomes(1) :
               CloseButton(b, admin_id, t, wf)
        \/ \E t \in InputTickets, profit \in Profits, wf \in WriteOutcomes(1) :
               CloseCommand(admin_id, t, profit, wf)
        \/ PanelPrompt(b, admin_id)
        \/ \E t \in InputTickets, profit \in Profits, wf \in WriteOutcomes(1) :
               PanelClose(b, admin_id, t, profit, wf)
        \/ \E t \in InputTickets, wf \in WriteOutcomes(2) :
               BanButton(b, admin_id, t, wf)
        \/ \E chat \in Chats, wf \in WriteOutcomes(MaxTickets + 1) :
               BanCommand(admin_id, chat, wf)
        \/ \E chat \in Chats, wf \in WriteOutcomes(1) :
               UnbanCommand(admin_id, chat, wf)
        \/ \E message_id \in 1..MaxRelays : AdminReply(b, admin_id, message_id)

TimerStep ==
    \E t \in timers :
        \/ TimerFire(t)
        \/ \E ok \in BOOLEAN : TimerSend(t, ok)

StorageStep(maxTickets) ==
    \/ \E user \in Chats : FoodCategory(user)
    \/ \E b \in Tasks : LockAcquired(b)
    \/ \E wf \in WriteOutcomes(1) : SaveOpen(wf)
    \/ SaveDump
    \/ SaveReplace
    \/ SaveDone
    \/ \E b \in Bots, chat \in Chats, text \in ConfirmInputs :
           ConfirmKilled(b, chat, text, maxTickets)

EscalationStep ==
    \E b \in Bots :
        \/ \E chat_id \in Admins \cup Chats, t \in InputTickets, alias \in Aliases,
              wf \in WriteOutcomes(1) :
               CouponRequest(b, chat_id, t, alias, wf)
        \/ \E ok \in BOOLEAN : CouponStep(b, ok)
        \/ \E chat_id \in DuffPool \cup Admins, t \in InputTickets,
              text \in CouponTexts, wf \in WriteOutcomes(1), ok \in BOOLEAN :
               CouponCommand(b, chat_id, t, text, wf, ok)
        \/ \E chat_id \in DuffPool \cup Admins, m \in 1..(MaxCoupons + 1),
              text \in CouponTexts, wf \in WriteOutcomes(1), ok \in BOOLEAN :
               DuffReply(b, chat_id, m, text, wf, ok)
        \/ \E admin_id \in Admins : ReportCommand(admin_id)

ProfileStep(maxTickets) ==
    \E user_id \in Chats :
        \/ \E choice \in LabelChoices : AddAddress(user_id, choice)
        \/ \E i \in 1..MaxAddresses : DeleteAddress(user_id, i)
        \/ \E text \in SubtotalInputs, wf \in WriteOutcomes(2) :
               SubtotalStep(user_id, text, maxTickets, wf)
        \/ \E ok \in BOOLEAN : OrderFanoutStep(ok)
        \/ \E state \in ProfileStates : SaveProfileSession(user_id, state)
        \/ GetProfileSession(user_id)
        \/ SessionCleanup

Next ==
    \/ Tick(MaxTime)
    \/ Restart
    \/ CustomerStep(MaxTickets)
    \/ TransportStep
    \/ WorkerStep
    \/ TimerStep
    \/ StorageStep(MaxTickets)
    \/ EscalationStep
    \/ ProfileStep(MaxTickets)

Spec == Init /\ [][Next]_vars

(***************************************************************************)
(* Reporting: a customer of the flight bot opens tickets, a worker closes  *)
(* them by the button and by /close with a profit, bans and unbans the     *)
(* customer, asks for the report, another worker bans by the button of a   *)
(* ticket, and the process may be restarted, after which the report is     *)
(* computed from the reloaded ledger.  Every send and every write succeeds.*)
(***************************************************************************)
NextReport ==
    \/ Restart
    \/ StartFlow("flight", 1)
    \/ Answer("flight", 1, <<"x">>)
    \/ Confirm("flight", 1, YES, MaxTickets, 0)
    \/ FanoutStep("flight", TRUE)
    \/ \E t \in InputTickets : CloseButton("flight", ADMIN_CHAT_IDS[1], t, 0)
    \/ \E t \in InputTickets, profit \in Profits :
           CloseCommand(ADMIN_CHAT_IDS[1], t, profit, 0)
    \/ BanCommand(ADMIN_CHAT_IDS[1], 1, 0)
    \/ UnbanCommand(ADMIN_CHAT_IDS[1], 1, 0)
    \/ ReportCommand(ADMIN_CHAT_IDS[1])

SpecReport == Init /\ [][NextReport]_vars

\* tickets and ledger: the same without the report, and the other worker
\* presses the Ban button
NextLedger ==
    \/ Restart
    \/ StartFlow("flight", 1)
    \/ Answer("flight", 1, <<"x">>)
    \/ Confirm("flight", 1, YES, MaxTickets, 0)
    \/ FanoutStep("flight", TRUE)
    \/ \E t \in InputTickets : CloseButton("flight", ADMIN_CHAT_IDS[1], t, 0)
    \/ \E t \in InputTickets : CloseCommand(ADMIN_CHAT_IDS[1], t, 400, 0)
    \/ \E t \in InputTickets : BanButton("flight", ADMIN_CHAT_IDS[2], t, 0)
    \/ BanCommand(ADMIN_CHAT_IDS[1], 1, 0)
    \/ UnbanCommand(ADMIN_CHAT_IDS[1], 1, 0)

SpecLedger == Init /\ [][NextLedger]_vars

(***************************************************************************)
(* A customer of the food bot adding addresses to the profile and deleting *)
(* them, while time passes.                                                *)
(***************************************************************************)
NextProfile ==
    \/ Tick(SmallTime)
    \/ \E choice \in LabelChoices : AddAddress(1, choice)
    \/ \E i \in 1..MaxAddresses : DeleteAddress(1, i)

SpecProfile == Init /\ [][NextProfile]_vars

(***************************************************************************)
(* Profile sessions being saved, looked up and swept while time passes,    *)
(* from a sessions.json that holds a stamped session or also one without   *)
(* stamp; the process may be restarted.                                    *)
(***************************************************************************)
SweepStored ==
    {StoredSessions,
     [u \in Chats |-> [state |-> "AWAIT_PROFILE_CHOICE",
                       updatedAt |-> IF u = 1 THEN 0 ELSE NoValue]]}

InitSweep ==
    \E stored \in SweepStored : InitWith(DuffPool, [u \in Chats |-> NoProfile], stored)

NextSweep ==
    \/ Tick(MaxTime)
    \/ Restart
    \/ \E user_id \in Chats, state \in ProfileStates : SaveProfileSession(user_id, state)
    \/ \E user_id \in Chats : GetProfileSession(user_id)
    \/ SessionCleanup
    \/ SaveOpen(0)
    \/ SaveDump
    \/ SaveReplace
    \/ SaveDone

SpecSweep == InitSweep /\ [][NextSweep]_vars

(***************************************************************************)
(* Saves of sessions.json while the mapping changes: users of the food bot *)
(* pick a category, profile sessions are saved, and session_cleanup_loop   *)
(* wakes every now and then, also while a write is in its thread.  Every   *)
(* write to the disk succeeds.                                             *)
(***************************************************************************)
NextSave ==
    \/ Tick(MaxTime)
    \/ \E user_id \in Chats : SaveProfileSession(user_id, "AWAIT_PROFILE_CHOICE")
    \/ \E user \in Chats : FoodCategory(user)
    \/ SessionCleanup
    \/ \E b \in {"food", "sweep"} : LockAcquired(b)
    \/ SaveOpen(0)
    \/ SaveDump
    \/ SaveReplace
    \/ SaveDone

SpecSave == Init /\ [][NextSave]_vars

(***************************************************************************)
(* Orders of one customer over time: the customer saves an address and     *)
(* orders through the food bot, again and again.  Every send and every     *)
(* write succeeds.                                                         *)
(***************************************************************************)
NextOrder ==
    \/ Tick(MaxTime)
    \/ \E choice \in {LABEL_HOME, LABEL_OTHER} : AddAddress(1, choice)
    \/ \E text \in SubtotalInputs : SubtotalStep(1, text, MaxRateTickets, 0)
    \/ OrderFanoutStep(TRUE)

SpecOrder == Init /\ [][NextOrder]_vars

(***************************************************************************)
(* The rate limiter at work: customers of the flight bot submitting        *)
(* requests over time, every send and every write succeeding.              *)
(***************************************************************************)
NextRate ==
    \/ Tick(MaxTime)
    \/ \E chat \in Chats :
           \/ StartFlow("flight", chat)
           \/ Answer("flight", chat, <<" ", "z", " ">>)
           \/ \E text \in ConfirmInputs :
                  Confirm("flight", chat, text, MaxRateTickets, 0)
    \/ FanoutStep("flight", TRUE)

SpecRate == Init /\ [][NextRate]_vars

\* the limiter's answers, second by second: every wait of up to MaxRetryAfter
\* seconds is reported to chat 1
MaxRetryAfter == 120

NextMinutes ==
    \E retry_after \in 0..MaxRetryAfter : LimitedReply("flight", 1, retry_after)

SpecMinutes == Init /\ [][NextMinutes]_vars

(***************************************************************************)
(* Workers accepting: a customer of the flight bot opens a ticket, the     *)
(* fan-out may fail per endpoint, and both workers accept through either   *)
(* bot, so that one handler's pruning interleaves with the other's accept. *)
(* A worker's alias is the one configured for the chat.                    *)
(***************************************************************************)
AliasOf(admin_id) == IF admin_id = ADMIN_CHAT_IDS[1] THEN "al" ELSE "bo"

NextAssign ==
    \/ Tick(SmallTime)
    \/ StartFlow("flight", 1)
    \/ Answer("flight", 1, <<"x">>)
    \/ Confirm("flight", 1, YES, SmallTickets, 0)
    \/ \E ok \in BOOLEAN : FanoutStep("flight", ok)
    \/ \E b \in TwoBots :
           \/ \E admin_id \in Admins, t \in InputTickets, wf \in WriteOutcomes(1) :
                  Accept(b, admin_id, t, AliasOf(admin_id), wf)
           \/ PruneStart(b)
           \/ PruneStep(b)

SpecAssign == Init /\ [][NextAssign]_vars

(***************************************************************************)
(* Workers closing: a customer of the flight bot opens a ticket, workers   *)
(* close it by the button, by /close and through the worker panel, and the *)
(* process may be restarted, after which the ledger is reloaded and the    *)
(* in-memory tickets are gone.  Every write succeeds.                      *)
(***************************************************************************)
NextClose ==
    \/ Tick(SmallTime)
    \/ Restart
    \/ StartFlow("flight", 1)
    \/ Answer("flight", 1, <<"x">>)
    \/ Confirm("flight", 1, YES, SmallTickets, 0)
    \/ FanoutStep("flight", TRUE)
    \/ \E admin_id \in Admins :
           \/ \E b \in TwoBots, t \in InputTickets : CloseButton(b, admin_id, t, 0)
           \/ \E t \in InputTickets, profit \in Profits :
                  CloseCommand(admin_id, t, profit, 0)
           \/ \E b \in TwoBots : PanelPrompt(b, admin_id)
           \/ \E b \in TwoBots, t \in InputTickets, profit \in Profits :
                  PanelClose(b, admin_id, t, profit, 0)

SpecClose == Init /\ [][NextClose]_vars

(***************************************************************************)
(* Workers banning: a customer of the flight bot opens tickets (a new flow *)
(* can be started while a ticket is open), and workers ban by the ticket's *)
(* button or by /ban, and lift the ban by /unban.  Every send and every    *)
(* write succeeds.                                                         *)
(***************************************************************************)
NextBan ==
    \/ StartFlow("flight", 1)
    \/ Answer("flight", 1, <<"x">>)
    \/ Confirm("flight", 1, YES, MaxTickets, 0)
    \/ FanoutStep("flight", TRUE)
    \/ \E admin_id \in Admins :
           \/ \E b \in TwoBots, t \in InputTickets : BanButton(b, admin_id, t, 0)
           \/ \E chat \in Chats : BanCommand(admin_id, chat, 0)
           \/ \E chat \in Chats : UnbanCommand(admin_id, chat, 0)

SpecBan == Init /\ [][NextBan]_vars

(***************************************************************************)
(* A banned customer goes on writing: chat 1 goes through the flow of the  *)
(* flight bot, opens tickets and writes on them; a worker bans and unbans  *)
(* the chat; the reply of the guard to the banned chat may raise.  Every   *)
(* other send and every write succeeds.                                    *)
(***************************************************************************)
NextGuard ==
    \/ StartFlow("flight", 1)
    \/ Answer("flight", 1, <<"x">>)
    \/ Confirm("flight", 1, YES, MaxTickets, 0)
    \/ FanoutStep("flight", TRUE)
    \/ CustomerMessage("flight", 1)
    \/ ForwardStep("flight", TRUE)
    \/ \E ok \in BOOLEAN : BanGuard("flight", 1, ok)
    \/ BanCommand(ADMIN_CHAT_IDS[1], 1, 0)
    \/ UnbanCommand(ADMIN_CHAT_IDS[1], 1, 0)

SpecGuard == Init /\ [][NextGuard]_vars

(***************************************************************************)
(* Relaying: a customer of the flight bot opens a ticket and then writes   *)
(* to either bot; sends of the fan-out and of the relay may fail; workers  *)
(* accept through either bot, so that relay, fan-out and pruning           *)
(* interleave.  Every write succeeds.                                      *)
(***************************************************************************)
NextRelay ==
    \/ StartFlow("flight", 1)
    \/ Answer("flight", 1, <<"x">>)
    \/ Confirm("flight", 1, YES, SmallTickets, 0)
    \/ \E ok \in BOOLEAN : FanoutStep("flight", ok)
    \/ \E b \in TwoBots :
           \/ CustomerMessage(b, 1)
           \/ \E ok \in BOOLEAN : ForwardStep(b, ok)
           \/ \E admin_id \in Admins, t \in InputTickets :
                  Accept(b, admin_id, t, AliasOf(admin_id), 0)
           \/ PruneStart(b)
           \/ PruneStep(b)

SpecRelay == Init /\ [][NextRelay]_vars

\* the same, and the workers reply to the messages of their chats
NextReply ==
    \/ NextRelay
    \/ \E b \in TwoBots, admin_id \in Admins, message_id \in 1..MaxRelays :
           AdminReply(b, admin_id, message_id)

SpecReply == Init /\ [][NextReply]_vars

(***************************************************************************)
(* Creating tickets: one customer goes through the question flow of the    *)
(* flight bot and another through that of the hotel bot; the two handlers  *)
(* interleave at the sends of the fan-out, and a worker may accept through *)
(* the food bot meanwhile.  Every send succeeds; a write of config.json or *)
(* of the ledger may raise.                                                *)
(***************************************************************************)
FlowBots == {"flight", "hotel"}

NextCreate ==
    \/ StartFlow("flight", 1)
    \/ Cancel("flight", 1)
    \/ Answer("flight", 1, <<" ", "z", " ">>)
    \/ \E text \in ConfirmInputs, wf \in WriteOutcomes(2) :
           Confirm("flight", 1, text, MaxTickets, wf)
    \/ StartFlow("hotel", 2)
    \/ Answer("hotel", 2, <<"x">>)
    \/ Confirm("hotel", 2, YES, MaxTickets, 0)
    \/ \E b \in FlowBots : FanoutStep(b, TRUE)
    \/ \E t \in InputTickets :
           Accept("food", ADMIN_CHAT_IDS[1], t, AliasOf(ADMIN_CHAT_IDS[1]), 0)
    \/ PruneStart("food")
    \/ PruneStep("food")

SpecCreate == Init /\ [][NextCreate]_vars

(***************************************************************************)
(* Allocating ids: customers of the flight and of the hotel bot open       *)
(* tickets, workers ban and unban (which writes config.json too), and the  *)
(* process may be restarted at any point.  Every send and every write      *)
(* succeeds.                                                               *)
(***************************************************************************)
NextCounter ==
    \/ Restart
    \/ StartFlow("flight", 1)
    \/ Answer("flight", 1, <<"x">>)
    \/ Confirm("flight", 1, YES, MaxRateTickets, 0)
    \/ StartFlow("hotel", 2)
    \/ Answer("hotel", 2, <<"x">>)
    \/ Confirm("hotel", 2, YES, MaxRateTickets, 0)
    \/ \E b \in FlowBots : FanoutStep(b, TRUE)
    \/ BanCommand(ADMIN_CHAT_IDS[1], 2, 0)
    \/ UnbanCommand(ADMIN_CHAT_IDS[1], 2, 0)

SpecCounter == Init /\ [][NextCounter]_vars

(***************************************************************************)
(* Conversation sessions: chat 1 goes through the question flow of the     *)
(* flight bot, typing padded answers, confirming, cancelling and starting  *)
(* over, and starts the flow of the hotel bot as well; the timeout tasks   *)
(* of both stores wake at any time and their notices may fail.  Every      *)
(* write succeeds.                                                         *)
(***************************************************************************)
NextSession ==
    \/ Tick(SmallTime)
    \/ StartFlow("flight", 1)
    \/ Cancel("flight", 1)
    \/ Answer("flight", 1, <<" ", "z", " ">>)
    \/ \E text \in ConfirmInputs : Confirm("flight", 1, text, MaxTickets, 0)
    \/ FanoutStep("flight", TRUE)
    \/ StartFlow("hotel", 1)
    \/ \E t \in timers : TimerFire(t)
    \/ \E t \in timers, ok \in BOOLEAN : TimerSend(t, ok)

SpecSession == Init /\ [][NextSession]_vars

(***************************************************************************)
(* One customer's flow with its timeout tasks under the event loop's       *)
(* scheduling: a task whose sleep is over is resumed, and a send that was  *)
(* issued returns or raises.  The process is not restarted.                *)
(***************************************************************************)
NextTimeout ==
    \/ Tick(SmallTime)
    \/ StartFlow("flight", 1)
    \/ Cancel("flight", 1)
    \/ Answer("flight", 1, <<" ", "z", " ">>)
    \/ \E text \in ConfirmInputs : Confirm("flight", 1, text, SmallTickets, 0)
    \/ FanoutStep("flight", TRUE)
    \/ \E t \in timers : TimerFire(t)
    \/ \E t \in timers, ok \in BOOLEAN : TimerSend(t, ok)

\* the ids tasks can have: one asleep, MaxSends in their send, one being made
AllTaskIds == 1..(MaxSends + 2)

\* each task is resumed on its own
SpecTimeout ==
    /\ Init
    /\ [][NextTimeout]_vars
    /\ \A n \in AllTaskIds :
           /\ WF_vars(\E t \in timers : t.id = n /\ TimerFire(t))
           /\ WF_vars(\E t \in timers, ok \in BOOLEAN : t.id = n /\ TimerSend(t, ok))

(***************************************************************************)
(* The files: a customer of the flight bot opens a ticket and a worker     *)
(* closes it, each writing config.json or the ledger on the loop's thread, *)
(* while a user of the food bot picks a category, which saves sessions.json *)
(* in a worker thread.  A write may raise, and the process may be killed   *)
(* at any point, also inside the write of the ledger.                      *)
(***************************************************************************)
NextStorage ==
    \/ Restart
    \/ StartFlow("flight", 1)
    \/ Answer("flight", 1, <<"x">>)
    \/ \E wf \in WriteOutcomes(2) : Confirm("flight", 1, YES, SmallTickets, wf)
    \/ ConfirmKilled("flight", 1, YES, SmallTickets)
    \/ FanoutStep("flight", TRUE)
    \/ \E t \in InputTickets, wf \in WriteOutcomes(1) :
           CloseButton("flight", ADMIN_CHAT_IDS[1], t, wf)
    \/ \E user \in Chats : FoodCategory(user)
    \/ \E wf \in WriteOutcomes(1) : SaveOpen(wf)
    \/ SaveDump
    \/ SaveReplace
    \/ SaveDone

SpecStorage == Init /\ [][NextStorage]_vars

(***************************************************************************)
(* Coupons: a customer of the flight bot opens a ticket, workers accept it *)
(* and ask the escalation pool for a coupon, members of the pool (and      *)
(* others) provide one by /coupon or by a reply, and a worker may close    *)
(* the ticket at any moment.  The pool is the deployed one or empty; sends *)
(* to the pool and to the worker may raise, and so may a write.            *)
(***************************************************************************)
CouponSenders == {202, ADMIN_CHAT_IDS[1]}

NextCoupon ==
    \/ StartFlow("flight", 1)
    \/ Answer("flight", 1, <<"x">>)
    \/ Confirm("flight", 1, YES, SmallTickets, 0)
    \/ FanoutStep("flight", TRUE)
    \/ \E admin_id \in Admins, t \in InputTickets :
           Accept("flight", admin_id, t, AliasOf(admin_id), 0)
    \/ PruneStart("flight")
    \/ PruneStep("flight")
    \/ \E chat_id \in Admins \cup {1}, t \in InputTickets, wf \in WriteOutcomes(1) :
           CouponRequest("food", chat_id, t, AliasOf(chat_id), wf)
    \/ \E ok \in BOOLEAN : CouponStep("food", ok)
    \/ \E chat_id \in CouponSenders, t \in InputTickets, text \in CouponTexts,
          ok \in BOOLEAN :
           CouponCommand("hotel", chat_id, t, text, 0, ok)
    \/ \E chat_id \in CouponSenders, m \in 1..(MaxCoupons + 1),
          text \in CouponTexts, wf \in WriteOutcomes(1) :
           DuffReply("hotel", chat_id, m, text, wf, TRUE)
    \/ \E t \in InputTickets : CloseButton("flight", ADMIN_CHAT_IDS[2], t, 0)

InitCoupon ==
    \E pool \in {{}, DuffPool} : InitWith(pool, [u \in Chats |-> NoProfile], StoredSessions)

SpecCoupon == InitCoupon /\ [][NextCoupon]_vars

(***************************************************************************)
(* Sends that fail: the fan-out of a new ticket to the workers, the relay  *)
(* of the customer's messages and the coupon request to the escalation     *)
(* pool, each send returning or raising on its own.                        *)
(***************************************************************************)
NextFanout ==
    \/ StartFlow("flight", 1)
    \/ Answer("flight", 1, <<"x">>)
    \/ Confirm("flight", 1, YES, SmallTickets, 0)
    \/ \E ok \in BOOLEAN : FanoutStep("flight", ok)
    \/ CustomerMessage("flight", 1)
    \/ \E ok \in BOOLEAN : ForwardStep("flight", ok)
    \/ \E t \in InputTickets :
           Accept("hotel", ADMIN_CHAT_IDS[1], t, AliasOf(ADMIN_CHAT_IDS[1]), 0)
    \/ PruneStart("hotel")
    \/ PruneStep("hotel")
    \/ \E t \in InputTickets :
           CouponRequest("food", ADMIN_CHAT_IDS[1], t, AliasOf(ADMIN_CHAT_IDS[1]), 0)
    \/ \E ok \in BOOLEAN : CouponStep("food", ok)

SpecFanout == Init /\ [][NextFanout]_vars

(***************************************************************************)
(* The life of tickets: a customer of the flight bot opens tickets and     *)
(* writes on; a worker accepts, asks the pool for a coupon, closes by the  *)
(* button, bans by /ban and unbans; a member of the pool provides a        *)
(* coupon.  Every send and every write succeeds, and the process is not    *)
(* restarted.                                                              *)
(***************************************************************************)
NextLifecycle ==
    \/ StartFlow("flight", 1)
    \/ Answer("flight", 1, <<"x">>)
    \/ Confirm("flight", 1, YES, MaxTickets, 0)
    \/ FanoutStep("flight", TRUE)
    \/ CustomerMessage("flight", 1)
    \/ ForwardStep("flight", TRUE)
    \/ PruneStart("flight")
    \/ PruneStep("flight")
    \/ \E t \in InputTickets :
           \/ Accept("flight", ADMIN_CHAT_IDS[1], t, AliasOf(ADMIN_CHAT_IDS[1]), 0)
           \/ CouponRequest("flight", ADMIN_CHAT_IDS[1], t, AliasOf(ADMIN_CHAT_IDS[1]), 0)
           \/ CouponCommand("flight", 202, t, <<"c">>, 0, TRUE)
           \/ CloseButton("flight", ADMIN_CHAT_IDS[1], t, 0)
    \/ CouponStep("flight", TRUE)
    \/ BanCommand(ADMIN_CHAT_IDS[1], 1, 0)
    \/ UnbanCommand(ADMIN_CHAT_IDS[1], 1, 0)

SpecLifecycle == Init /\ [][NextLifecycle]_vars

(***************************************************************************)
(* Claims.                                                                 *)
(***************************************************************************)
RecordsOf(user) == {t \in DOMAIN TICKET_RECORDS : TICKET_RECORDS[t].chatId = user}

\* the user's admitted submissions made at time x
SubmittedAt(user, x) == {t \in RecordsOf(user) : TICKET_RECORDS[t].createdAt = x}

\* the user's admitted submissions of the last window
InWindow(user) ==
    {t \in RecordsOf(user) : TICKET_RECORDS[t].createdAt >= now - RATE_LIMIT_SECONDS}

TimesKept(user, x) ==
    Len(SelectSeq(TICKET_HISTORY[user], LAMBDA y : y = x))

\* C9: a confirmation is admitted exactly when fewer than rate_limit_max of the
\* user's admitted submissions lie in the last window; an admitted one records
\* the current time, a limited one records nothing: the history kept for a
\* user holds, for the last window, exactly the times of the admitted ones.
C9_RateLimiter ==
    /\ \A u \in Chats : \A x \in 0..now :
           x >= now - RATE_LIMIT_SECONDS =>
               TimesKept(u, x) = Cardinality(SubmittedAt(u, x))
    /\ (ev.op = "confirm" /\ ev.res = "created") =>
           /\ Cardinality(InWindow(ev.who) \ {ev.ticket}) < rate_limit_max
           /\ TICKET_HISTORY[ev.who][Len(TICKET_HISTORY[ev.who])] = now
    /\ (ev.op = "confirm" /\ ev.res = "limited") =>
           Cardinality(InWindow(ev.who)) >= rate_limit_max

\* two admitted, and a third admitted once the window of the first had elapsed
C9_Witness ==
    /\ ev.op = "confirm" /\ ev.res = "created"
    /\ Cardinality(RecordsOf(ev.who)) = rate_limit_max + 1
    /\ Cardinality(InWindow(ev.who)) <= rate_limit_max

\* C10: a limited answer reports oldest retained time + window - now, and
\* that is greater than zero.
C10_RetryAfterPositive ==
    (ev.op = "confirm" /\ ev.res = "limited") =>
        /\ ev.n = TICKET_HISTORY[ev.who][1] + RATE_LIMIT_SECONDS - now
        /\ ev.n > 0

\* C1: at most one worker is answered ok on a ticket: whoever is answered ok
\* is the owner, an owner once set is never replaced, and an accept by
\* another worker is answered "assigned" and leaves the ticket and its ledger
\* record as they were.
C1_SingleOwner ==
    /\ [](ev.op = "accept" /\ ev.res = "ok" =>
              TICKETS[ev.ticket].assignedAdminId = ev.who)
    /\ [][\A t \in DOMAIN TICKETS :
              TICKETS[t].assignedAdminId # NoAdmin /\ t \in DOMAIN TICKETS' =>
                  /\ TICKETS'[t].assignedAdminId = TICKETS[t].assignedAdminId
                  /\ (ev'.op = "accept" /\ ev'.ticket = t /\ TICKETS[t].status = "open"
                        /\ ev'.who # TICKETS[t].assignedAdminId) =>
                         /\ ev'.res = "assigned"
                         /\ TICKETS'[t] = TICKETS[t]
                         /\ TICKET_RECORDS'[t] = TICKET_RECORDS[t]]_vars

\* the second worker has just been turned away from a ticket the first owns
C1_Witness ==
    /\ ev.op = "accept" /\ ev.res = "assigned"
    /\ TICKETS[ev.ticket].assignedAdminId \notin {NoAdmin, ev.who}

\* C2: an accept by the worker who already owns the open ticket is answered ok
\* and leaves the ticket and its ledger record as the first accept left them.
C2_ReacceptIdempotent ==
    [][\A t \in DOMAIN TICKETS :
           (ev'.op = "accept" /\ ev'.ticket = t /\ ev'.res = "ok"
              /\ ev'.who = TICKETS[t].assignedAdminId) =>
               /\ TICKETS'[t] = TICKETS[t]
               /\ TICKET_RECORDS'[t] = TICKET_RECORDS[t]]_vars

\* C3: a close of a ticket whose ledger record is already closed, by the
\* button, by /close or through the worker panel, is answered with an error
\* and changes neither the in-memory ticket nor the ledger record, also when
\* the record has no in-memory ticket.
C3_CloseIdempotent ==
    [][\A t \in DOMAIN TICKET_RECORDS :
           (TICKET_RECORDS[t].status = "closed" /\ ev'.ticket = t
              /\ ev'.op \in {"close_button", "close_command", "panel_close"}) =>
               /\ ev'.res = "already_closed"
               /\ TICKET_RECORDS'[t] = TICKET_RECORDS[t]
               /\ t \in DOMAIN TICKETS => TICKETS'[t] = TICKETS[t]]_vars

\* C4: after a ban by the ticket's button or by /ban the chat is in the
\* banned set, and every ticket of the chat that was open is closed, its
\* ledger record closed with closeType banned.
C4_BanClosesAll ==
    [][(ev'.op \in {"ban_button", "ban_command"} /\ ev'.res = "banned") =>
           /\ ev'.n \in BANNED_CHAT_IDS'
           /\ \A t \in OpenTicketsOf(ev'.n) :
                  /\ TICKETS'[t].status = "closed"
                  /\ TICKET_RECORDS'[t].status = "closed"
                  /\ TICKET_RECORDS'[t].closeType = "banned"]_vars

TargetChats(h) == {h.list[i].chatId : i \in DOMAIN h.list}

\* C5: a customer message received when the ticket is owned by a worker is
\* relayed to that worker's chat and to no other, whatever the ticket's
\* endpoint list holds, also while another handler is pruning it.
C5_OnlyOwner ==
    /\ [](ev.op = "relay" /\ ev.n # NoAdmin =>
              /\ ev.who = ev.n
              /\ ev.ticket \in DOMAIN TICKETS =>
                     TICKETS[ev.ticket].assignedAdminId = ev.n)
    /\ [][\A b \in Bots :
              (handler[b].pc = "idle" /\ handler'[b].pc = "forward"
                 /\ TICKETS[handler'[b].ticket].assignedAdminId # NoAdmin) =>
                  /\ handler'[b].assigned_id =
                         TICKETS[handler'[b].ticket].assignedAdminId
                  /\ TargetChats(handler'[b]) = {handler'[b].assigned_id}]_vars

\* a message is relayed to the owner while the other bot prunes the list
C5_Witness ==
    /\ ev.op = "relay" /\ ev.n # NoAdmin /\ ev.res = "sent"
    /\ \E b \in Bots : handler[b].pc = "prune" /\ handler[b].ticket = ev.ticket

\* C6: a customer message received after the fan-out of the ticket has ended
\* and while the ticket has no owner is addressed to the chat of every
\* configured worker, also to those whose fan-out send failed.
C6_AllWorkers ==
    [][\A b \in Bots :
           (handler[b].pc = "idle" /\ handler'[b].pc = "forward"
              /\ TICKETS[handler'[b].ticket].assignedAdminId = NoAdmin
              /\ \A o \in Bots : ~(handler[o].pc = "fanout"
                                      /\ handler[o].ticket = handler'[b].ticket)) =>
               TargetChats(handler'[b]) = Admins]_vars

EndpointChats(ticket) ==
    [i \in DOMAIN ticket.adminMessages |-> ticket.adminMessages[i].chatId]

\* C7: a yes that is not rate-limited, after all questions of the service
\* were answered, creates exactly one ticket: open, with the category and
\* the answers of the session, the chat's active ticket; when its fan-out has
\* ended with every send succeeding the session is gone and, unless a worker
\* has accepted the ticket meanwhile, its endpoint list holds one entry for
\* each configured worker, in order.
C7_TicketCreated ==
    /\ [][(ev'.op = "confirm" /\ ev'.res \notin {"prompt", "limited"}) =>
              LET id == ev'.ticket
                  chat == ev'.who
              IN  /\ ev'.res = "created"
                  /\ id \notin DOMAIN TICKETS
                  /\ DOMAIN TICKETS' = DOMAIN TICKETS \cup {id}
                  /\ TICKETS'[id].status = "open"
                  /\ TICKETS'[id].chatId = chat
                  /\ CUSTOMER_TICKETS'[chat] = id
                  /\ \E b \in Bots :
                         /\ TICKETS'[id].botKey = b
                         /\ sessions[b][chat].stage = "continue"
                         /\ TICKETS'[id].category = sessions[b][chat].category
                         /\ TICKETS'[id].answers = sessions[b][chat].answers
                         /\ DOMAIN TICKETS'[id].answers = 0..(NumQuestions(b) - 1)]_vars
    /\ [](ev.op = "fanout" /\ ev.res = "all_sent" =>
              LET ticket == TICKETS[ev.ticket]
              IN  /\ sessions[ticket.botKey][ticket.chatId] = NoSession
                  /\ ticket.status = "open"
                  /\ ticket.assignedAdminId = NoAdmin =>
                         EndpointChats(ticket) = ADMIN_CHAT_IDS)

\* the ids issued so far: every issued id has its record in the ledger file
Issued == DOMAIN RECORDS_FILE

LastIssued ==
    IF Issued = {} THEN TicketCounterDefault
    ELSE CHOOSE t \in Issued : \A u \in Issued : u <= t

\* C8: every id issued is greater than every id issued before, also before
\* a restart, and the counter a restart loads is the last id issued.
C8_IdsIncrease ==
    /\ [][(ev'.op = "confirm" /\ ev'.res = "created") =>
              /\ ev'.ticket = ticket_counter'
              /\ \A t \in Issued \cup DOMAIN TICKETS \cup DOMAIN TICKET_RECORDS :
                     t < ev'.ticket]_vars
    /\ [][ev'.op = "boot" => ticket_counter' = LastIssued]_vars
    /\ [](CONFIG_FILE.ticketCounter = LastIssued)

\* a ticket is opened after a restart that followed an earlier ticket
C8_Witness ==
    /\ ev.op = "confirm" /\ ev.res = "created" /\ restarts > 0
    /\ \E t \in DOMAIN TICKET_RECORDS : t < ev.ticket /\ t \notin DOMAIN TICKETS

\* v is text without the blanks at its two ends
IsTrimOf(v, text) ==
    /\ \E i \in 1..(Len(text) + 1) : \E j \in 0..Len(text) :
           /\ v = SubSeq(text, i, j)
           /\ \A k \in DOMAIN text : (k < i \/ k > j) => text[k] = " "
    /\ v # <<>> => Head(v) # " " /\ v[Len(v)] # " "

LiveSessions == {<<b, c>> \in Bots \X Chats : sessions[b][c] # NoSession}

\* C11: a text received in stage questions is stored trimmed under the
\* current question; the step then advances by exactly one while questions
\* remain, and the stage becomes continue after the last one.  So the step
\* stays within the question list, a session in stage questions holds the
\* answers of exactly the questions before its step, and a session in stage
\* continue holds an answer to every question of its service.
C11_QuestionsInOrder ==
    /\ [][ev'.op = "answer" =>
              LET old == sessions[ev'.bot][ev'.who]
                  new == sessions'[ev'.bot][ev'.who]
                  n   == NumQuestions(old.service)
              IN  /\ old.stage = "questions"
                  /\ DOMAIN new.answers = DOMAIN old.answers \cup {old.step}
                  /\ IsTrimOf(new.answers[old.step], ev'.text)
                  /\ \A k \in DOMAIN old.answers \ {old.step} :
                         new.answers[k] = old.answers[k]
                  /\ IF old.step < n - 1
                     THEN new.stage = "questions" /\ new.step = old.step + 1
                     ELSE new.stage = "continue" /\ new.step = old.step]_vars
    /\ [](\A p \in LiveSessions :
              LET s == sessions[p[1]][p[2]]
                  n == NumQuestions(s.service)
              IN  /\ s.step \in 0..(n - 1)
                  /\ s.stage \in {"questions", "continue"}
                  /\ s.stage = "questions" => DOMAIN s.answers = 0..(s.step - 1)
                  /\ s.stage = "continue" => DOMAIN s.answers = 0..(n - 1))

\* the last question of the flight flow has just been answered with padding
C11_Witness ==
    /\ ev.op = "answer" /\ ev.text = <<" ", "z", " ">>
    /\ sessions[ev.bot][ev.who].stage = "continue"
    /\ \A k \in 0..(NumQuestions(ev.bot) - 1) :
           sessions[ev.bot][ev.who].answers[k] = <<"z">>

\* yes in any letter case, blanks around it aside
CaseInsensitiveYes(text) ==
    \E v \in {<<a, b, c>> : a \in {"y", "Y"}, b \in {"e", "E"}, c \in {"s", "S"}} :
        IsTrimOf(v, text)

\* C12: in stage continue a text that is not a yes, in whatever letter case,
\* is answered with the confirmation prompt only: the session keeps its
\* stage, step and answers, no ticket or ledger record is created, and the
\* ticket counter and the user's rate-limit history stay as they were.
C12_OnlyYesConfirms ==
    [][(ev'.op = "confirm" /\ ~CaseInsensitiveYes(ev'.text)) =>
           LET old == sessions[ev'.bot][ev'.who]
               new == sessions'[ev'.bot][ev'.who]
           IN  /\ ev'.res = "prompt"
               /\ old.stage = "continue"
               /\ new.stage = old.stage
               /\ new.step = old.step
               /\ new.answers = old.answers
               /\ TICKETS' = TICKETS
               /\ TICKET_RECORDS' = TICKET_RECORDS
               /\ CUSTOMER_TICKETS' = CUSTOMER_TICKETS
               /\ ticket_counter' = ticket_counter
               /\ TICKET_HISTORY' = TICKET_HISTORY]_vars

\* a customer who already has a ticket types "yesx" at the confirmation
C12_Witness ==
    /\ ev.op = "confirm" /\ ev.res = "prompt" /\ ev.text = <<"y", "e", "s", "x">>
    /\ sessions[ev.bot][ev.who].stage = "continue"
    /\ TICKET_HISTORY[ev.who] # <<>>

SleepingTimers(b, chat) ==
    {t \in timers : t.bot = b /\ t.chat = chat /\ t.pc = "sleep"}

\* C13: a yes that the rate limiter answers limited ends the session: it is
\* removed from the store and its timeout task is cancelled, and no ticket
\* is created: the ticket counter, config.json, the tickets, the ledger and
\* its file, and the chat's active-ticket pointer are as before.
C13_LimitedAborts ==
    [][(ev'.op = "confirm" /\ ev'.res = "limited") =>
           LET old == sessions[ev'.bot][ev'.who]
           IN  /\ CaseInsensitiveYes(ev'.text)
               /\ old.stage = "continue"
               /\ sessions'[ev'.bot][ev'.who] = NoSession
               /\ old.timeout_task \notin TaskIds(timers')
               /\ \A t \in timers' :
                      ~(t.bot = ev'.bot /\ t.chat = ev'.who /\ t.pc = "sleep")
               /\ ticket_counter' = ticket_counter
               /\ CONFIG_FILE' = CONFIG_FILE
               /\ TICKETS' = TICKETS
               /\ TICKET_RECORDS' = TICKET_RECORDS
               /\ RECORDS_FILE' = RECORDS_FILE
               /\ CUSTOMER_TICKETS' = CUSTOMER_TICKETS]_vars

\* the third yes within the window, after two tickets
C13_Witness ==
    /\ ev.op = "confirm" /\ ev.res = "limited"
    /\ Cardinality(DOMAIN TICKETS) = rate_limit_max
    /\ CUSTOMER_TICKETS[ev.who] = ticket_counter

\* C14: a timeout task deletes only the session it was scheduled for: when
\* it deletes, the session in the store is the one holding this task, with
\* the last_active the task captured, and nothing else of the store
\* changes; whenever last_active differs, or the session is gone, the task
\* leaves the store as it is.
C14_StaleTimerHarmless ==
    [][ev'.op = "timeout" /\ ev'.res \in {"deleted", "stale"} =>
           \E t \in timers :
               LET current == sessions[t.bot][t.chat]
               IN  /\ t.id = ev'.n /\ t.pc = "sleep"
                   /\ t.bot = ev'.bot /\ t.chat = ev'.who
                   /\ IF current # NoSession /\ current.last_active = t.last_active
                      THEN /\ ev'.res = "deleted"
                           /\ current.timeout_task = t.id
                           /\ sessions' = [sessions EXCEPT ![t.bot][t.chat] = NoSession]
                      ELSE /\ ev'.res = "stale"
                           /\ sessions' = sessions]_vars

\* the task of the hotel session has deleted it while the flight session
\* of the same chat, set several times since, is still stored
C14_Witness ==
    /\ ev.op = "timeout" /\ ev.res = "deleted" /\ ev.bot = "hotel"
    /\ sessions["hotel"][ev.who] = NoSession
    /\ sessions["flight"][ev.who].step >= 2

\* C15: in every state each store holds, per chat, at most one timeout task
\* that is still asleep: none when the chat has no session, and otherwise
\* the task of the stored session, with the session's last_active.  A set
\* cancels the task of the session it replaces and schedules a new one.
C15_OneTimerPerSession ==
    /\ [](\A b \in Bots : \A c \in Chats :
              LET s == sessions[b][c]
              IN  /\ Cardinality(SleepingTimers(b, c)) <= 1
                  /\ s = NoSession => SleepingTimers(b, c) = {}
                  /\ s # NoSession =>
                         SleepingTimers(b, c) =
                             {[id |-> s.timeout_task, bot |-> b, chat |-> c,
                               last_active |-> s.last_active, pc |-> "sleep"]})
    /\ [][ev'.op \in {"start", "answer"} =>
              LET old == sessions[ev'.bot][ev'.who]
                  new == sessions'[ev'.bot][ev'.who]
              IN  /\ new.timeout_task \notin TaskIds(timers)
                  /\ new.timeout_task \in TaskIds(timers')
                  /\ old # NoSession => old.timeout_task \notin TaskIds(timers')]_vars

\* a session that replaced another holds the only sleeping task of its chat
C15_Witness ==
    /\ ev.op = "answer"
    /\ sessions[ev.bot][ev.who].step >= 2
    /\ Cardinality(SleepingTimers(ev.bot, ev.who)) = 1
    /\ SendingTimers # {}

\* C16: /cancel and /start leave the chat without a session and cancel its
\* timeout task: the task is no longer among the loop's tasks.  Tasks come
\* into being only with a session that is set, and a timeout notice is sent
\* only by a task that deleted its own session, so no notice is sent for a
\* session that was cancelled.
C16_CancelClears ==
    /\ [][ev'.op = "cancel" =>
              LET old == sessions[ev'.bot][ev'.who]
              IN  /\ sessions'[ev'.bot][ev'.who] = NoSession
                  /\ \A t \in timers' :
                         ~(t.bot = ev'.bot /\ t.chat = ev'.who /\ t.pc = "sleep")
                  /\ old # NoSession => old.timeout_task \notin TaskIds(timers')]_vars
    /\ [][\A t \in timers' \ timers :
              \/ /\ t.pc = "sleep"
                 /\ ev'.op \in {"start", "answer"}
                 /\ sessions'[t.bot][t.chat].timeout_task = t.id
              \/ /\ t.pc = "send"
                 /\ [t EXCEPT !.pc = "sleep"] \in timers
                 /\ sessions[t.bot][t.chat].timeout_task = t.id]_vars
    /\ [][ev'.op = "timeout" /\ ev'.res \in {"notified", "failed"} =>
              \E t \in timers : t.id = ev'.n /\ t.pc = "send"]_vars

\* a session that had progressed was cancelled and its task is gone
C16_Witness ==
    /\ ev.op = "cancel"
    /\ sessions[ev.bot][ev.who] = NoSession
    /\ timers = {}
    /\ TICKETS # EmptyMap

\* the session of chat c in bot b whose timeout task is n
SessionOf(b, c, n) ==
    sessions[b][c] # NoSession /\ sessions[b][c].timeout_task = n

\* a handler replaced, cancelled, aborted or submitted the session of chat c
Superseded(b, c) ==
    /\ ev.bot = b
    /\ \/ ev.who = c /\ ev.op \in {"start", "answer", "cancel"}
       \/ ev.who = c /\ ev.op = "confirm" /\ ev.res = "limited"
       \/ /\ ev.op = "fanout"
          /\ ev.res \in {"all_sent", "some_failed"}
          /\ ev.ticket \in DOMAIN TICKETS
          /\ TICKETS[ev.ticket].chatId = c

TimedOut(n, res) == ev.op = "timeout" /\ ev.n = n /\ ev.res \in res

\* C17: with a positive window, a stored session (here of chat 1 in the
\* flight bot) that no handler replaces, cancels, aborts or submits is
\* eventually deleted by its own timeout task, and the task then sends the
\* timeout notice to the chat.
C17_SessionTimesOut ==
    /\ SESSION_TIMEOUT_SECONDS > 0
    /\ \A n \in AllTaskIds :
           /\ SessionOf("flight", 1, n)
                  ~> (TimedOut(n, {"deleted"}) \/ Superseded("flight", 1))
           /\ TimedOut(n, {"deleted"}) ~> TimedOut(n, {"notified", "failed"})

\* the task of a session that had progressed deleted it and sent the notice
C17_Witness ==
    /\ TimedOut(ev.n, {"notified"})
    /\ sessions[ev.bot][ev.who] = NoSession
    /\ timers = {}
    /\ ev.n >= 1

\* C18: whenever the process stops, each backing file holds a complete
\* content, the previous or the new one, never a partial write.
C18_NeverPartial ==
    /\ SESSIONS_FILE # Torn
    /\ RECORDS_FILE # Torn

\* atomic_write_json is running in its thread
SaveInProgress ==
    \E b \in Tasks : handler[b].pc \in {"save_dump", "save_replace"}

\* C19: every save goes through STORAGE_LOCK: a backing file changes only
\* in a step of the handler that holds the lock, and the ledger is not
\* written while the write of another save is in progress.
C19_OneWriteAtATime ==
    /\ [][(RECORDS_FILE' # RECORDS_FILE \/ SESSIONS_FILE' # SESSIONS_FILE
               \/ TMP_FILE' # TMP_FILE)
              => STORAGE_LOCK # "" /\ STORAGE_LOCK = ev'.bot]_vars
    /\ [][RECORDS_FILE' # RECORDS_FILE => ~SaveInProgress]_vars

\* C20: a write that raises does not end the operation: the confirmation
\* still makes the new ticket the chat's active ticket and starts the
\* fan-out, and a close still marks the ticket closed and drops the pointer.
C20_FailedWriteCompletes ==
    [][writeFailures' > writeFailures =>
          /\ ev'.op = "confirm" =>
                 /\ ev'.ticket \in DOMAIN TICKETS'
                 /\ CUSTOMER_TICKETS'[ev'.who] = ev'.ticket
                 /\ handler'[ev'.bot].pc = "fanout"
          /\ ev'.op = "close_button" =>
                 /\ TICKETS'[ev'.ticket].status = "closed"
                 /\ \A c \in Chats : CUSTOMER_TICKETS'[c] # ev'.ticket]_vars

\* C21: a coupon request is accepted exactly when the caller is the worker
\* assigned to the open ticket and the escalation pool is not empty; every
\* other request is answered with a refusal and changes neither the ticket
\* nor the ledger nor the requests sent.  In every state a ticket or ledger
\* record flagged coupon-requested has an assigned worker.
C21_CouponRequestGuarded ==
    /\ [][ev'.op = "coupon_request" =>
              LET t == ev'.ticket
                  who == ev'.who
              IN  IF /\ t \in DOMAIN TICKETS
                     /\ TICKETS[t].status = "open"
                     /\ TICKETS[t].assignedAdminId = who
                     /\ who \in Admins
                     /\ DUFF_CHAT_IDS # {}
                  THEN /\ ev'.res \in {"ok", "error"}
                       /\ TICKETS'[t].couponRequested
                  ELSE /\ ev'.res \in {"not_authorized", "not_found", "unassigned",
                                       "not_owner", "no_pool"}
                       /\ UNCHANGED <<TICKETS, TICKET_RECORDS, RECORDS_FILE,
                                      DUFF_REQUEST_MESSAGES, handler>>]_vars
    /\ [](\A t \in DOMAIN TICKETS :
              TICKETS[t].couponRequested => TICKETS[t].assignedAdminId \in Admins)
    /\ [](\A t \in DOMAIN TICKET_RECORDS :
              TICKET_RECORDS[t].couponRequested =>
                  TICKET_RECORDS[t].assignedAdminId \in Admins)

\* the assigned worker's request went out to the pool, and the other
\* worker's request for the same ticket was refused
C21_Witness ==
    /\ ev.op = "coupon_request" /\ ev.res = "not_owner"
    /\ TICKETS[ev.ticket].couponRequested
    /\ TICKETS[ev.ticket].assignedAdminId # ev.who
    /\ DUFF_REQUEST_MESSAGES # EmptyMap

\* the one who provides is a member of the pool and the ticket is open and
\* has an assigned worker
MayProvide(who, t) ==
    /\ who \in DUFF_CHAT_IDS
    /\ t \in DOMAIN TICKETS
    /\ TICKETS[t].status = "open"
    /\ TICKETS[t].assignedAdminId \in Admins

\* C22: a coupon provided by /coupon or by a reply is forwarded only when a
\* member of the escalation pool provides it on an open ticket with an
\* assigned worker; it is then sent to that worker alone, and the ticket
\* and its ledger record are stamped with who provided it and when.  From a
\* non-member, or on an unassigned, closed or unknown ticket, nothing is
\* sent to a worker and neither the ticket nor the ledger changes.
C22_CouponToAssignedWorker ==
    [][ev'.op \in {"coupon", "duff_reply"} =>
          LET t == ev'.ticket
              who == ev'.who
          IN  /\ ev'.res = "forwarded" =>
                     /\ MayProvide(who, t)
                     /\ ev'.n = TICKETS[t].assignedAdminId
                     /\ TICKETS'[t].couponProvidedBy = who
                     /\ TICKETS'[t].couponProvidedAt = now
                     /\ TICKETS'[t].couponText = ev'.text
                     /\ t \in DOMAIN TICKET_RECORDS =>
                            /\ TICKET_RECORDS'[t].couponProvidedBy = who
                            /\ TICKET_RECORDS'[t].couponProvidedAt = now
                            /\ RECORDS_FILE' = TICKET_RECORDS'
              /\ ev'.res # "forwarded" => ev'.n = 0
              /\ ~MayProvide(who, t) =>
                     /\ ev'.res \in {"ignored", "no_entry", "not_found", "unassigned"}
                     /\ UNCHANGED <<TICKETS, TICKET_RECORDS, RECORDS_FILE>>
              /\ MayProvide(who, t) /\ ev'.text # <<>> =>
                     ev'.res \in {"forwarded", "send_failed", "error"}]_vars

\* a member's reply to a request message reached the assigned worker
C22_Witness ==
    /\ ev.op = "duff_reply" /\ ev.res = "forwarded"
    /\ ev.who \in DUFF_CHAT_IDS
    /\ ev.n = TICKETS[ev.ticket].assignedAdminId
    /\ TICKETS[ev.ticket].couponText = ev.text
    /\ TICKETS[ev.ticket].couponRequested

\* the handler of bot b goes on to its next endpoint, or is done after its last
GoesOn(b) ==
    LET h == handler[b]
    IN  IF h.i < Len(IF h.pc = "fanout" THEN ADMIN_CHAT_IDS ELSE h.list)
        THEN handler'[b].pc = h.pc /\ handler'[b].i = h.i + 1
        ELSE handler'[b].pc = "idle"

\* C23: in the fan-out of a ticket, in the relay of a customer message and
\* in a coupon request, a send that raises neither stops the loop over the
\* endpoints nor ends the handler: the next endpoint is served, and after
\* the last one the operation is completed.  The relay index, the ticket's
\* endpoint list and the request index get an entry for an endpoint exactly
\* when the send to it succeeded.
C23_SendFailuresIsolated ==
    /\ [][ev'.op = "fanout" =>
              LET b == ev'.bot
                  h == handler[b]
                  t == h.ticket
                  key == <<ev'.who, NewMessageId>>
                  entry == [chatId |-> ev'.who, messageId |-> NewMessageId]
                  last == h.i = Len(ADMIN_CHAT_IDS)
              IN  /\ h.pc = "fanout" /\ ev'.who = ADMIN_CHAT_IDS[h.i]
                  /\ GoesOn(b)
                  /\ last => sessions'[b][h.chat] = NoSession
                  /\ ev'.res \in {"sent", "all_sent"} =>
                         /\ ADMIN_TICKET_MESSAGES' =
                                Put(ADMIN_TICKET_MESSAGES, key,
                                    [ticketId |-> t, botKey |-> b])
                         /\ TICKETS'[t].adminMessages =
                                Append(TICKETS[t].adminMessages, entry)
                  /\ ev'.res = "failed" \/ (ev'.res = "some_failed" /\ ~h.failed) =>
                         UNCHANGED <<ADMIN_TICKET_MESSAGES, TICKETS>>
                  /\ (ADMIN_TICKET_MESSAGES' = ADMIN_TICKET_MESSAGES)
                         <=> (TICKETS' = TICKETS)]_vars
    /\ [][ev'.op = "relay" =>
              \E b \in Bots :
                  LET h == handler[b]
                      key == <<ev'.who, NewMessageId>>
                  IN  /\ h.pc = "forward" /\ ev'.who = h.list[h.i].chatId
                      /\ GoesOn(b)
                      /\ UNCHANGED TICKETS
                      /\ IF ev'.res = "sent"
                         THEN /\ key \notin DOMAIN ADMIN_TICKET_MESSAGES
                              /\ DOMAIN ADMIN_TICKET_MESSAGES' =
                                     DOMAIN ADMIN_TICKET_MESSAGES \cup {key}
                              /\ ADMIN_TICKET_MESSAGES'[key].ticketId = h.ticket
                         ELSE UNCHANGED ADMIN_TICKET_MESSAGES]_vars
    /\ [][ev'.op = "coupon_fanout" =>
              LET b == ev'.bot
                  h == handler[b]
                  key == <<ev'.who, NewDuffMessageId>>
              IN  /\ h.pc = "coupon" /\ ev'.who = h.list[h.i]
                  /\ GoesOn(b)
                  /\ IF ev'.res = "sent"
                     THEN /\ key \notin DOMAIN DUFF_REQUEST_MESSAGES
                          /\ DOMAIN DUFF_REQUEST_MESSAGES' =
                                 DOMAIN DUFF_REQUEST_MESSAGES \cup {key}
                          /\ DUFF_REQUEST_MESSAGES'[key].ticketId = h.ticket
                     ELSE UNCHANGED DUFF_REQUEST_MESSAGES]_vars

\* the send to the first member of the pool raised and the one to the
\* second went through, on a ticket whose fan-out had lost its first send
C23_Witness ==
    /\ ev.op = "coupon_fanout" /\ ev.res = "sent" /\ ev.n = 1
    /\ DOMAIN DUFF_REQUEST_MESSAGES = {<<ev.who, 1>>}
    /\ ev.who = 202
    /\ Len(TICKETS[ev.ticket].adminMessages) = 1
    /\ TICKETS[ev.ticket].adminMessages[1].chatId = ADMIN_CHAT_IDS[2]

\* C24: the report is a function of the ledger alone: the total is the number
\* of records and the sum of the four disjoint classes; a record is counted
\* open when its status is open, closed with remarks when it is closed with
\* close type admin_close, banned when closed with close type banned, closed
\* without order when closed otherwise; the profit and the cut are summed over
\* the admin_close records only; and computing the report changes no state.
C24_ReportOfLedger ==
    [][ev'.op = "report" =>
         LET r == ev'.text
             ids == DOMAIN TICKET_RECORDS
             closed == {t \in ids : TICKET_RECORDS[t].status = "closed"}
             remarks == {t \in closed : TICKET_RECORDS[t].closeType = "admin_close"}
             bans == {t \in closed : TICKET_RECORDS[t].closeType = "banned"}
             sum[S \in SUBSET ids] ==
                 IF S = {} THEN [profit |-> 0, duffCut |-> 0]
                 ELSE LET t == CHOOSE x \in S : TRUE
                          rest == sum[S \ {t}]
                      IN  [profit |-> rest.profit + TICKET_RECORDS[t].profit,
                           duffCut |-> rest.duffCut + TICKET_RECORDS[t].duffCut]
         IN  /\ UNCHANGED <<now, ticket_counter, CONFIG_FILE, TICKETS, TICKET_RECORDS,
                            RECORDS_FILE, CUSTOMER_TICKETS, BANNED_CHAT_IDS,
                            TICKET_HISTORY, ADMIN_TICKET_MESSAGES, ADMIN_PROMPTS,
                            sessions, handler, restarts, writeFailures, timers,
                            storage, DUFF_CHAT_IDS, DUFF_REQUEST_MESSAGES, USERS>>
             /\ r.total = Cardinality(ids)
             /\ r.total = r.open + r.closed_with_remarks + r.closed_no_order + r.banned
             /\ r.open = Cardinality({t \in ids : TICKET_RECORDS[t].status = "open"})
             /\ r.closed_with_remarks = Cardinality(remarks)
             /\ r.banned = Cardinality(bans)
             /\ r.closed_no_order = Cardinality(closed \ (remarks \cup bans))
             /\ r.profit_total = sum[remarks].profit
             /\ r.duff_total = sum[remarks].duffCut]_vars

\* a report over a ledger with a banned ticket and one closed with a profit
C24_Witness ==
    /\ ev.op = "report"
    /\ ev.text.banned = 1 /\ ev.text.closed_with_remarks = 1
    /\ ev.text.profit_total = 400 /\ ev.text.duff_total = 100
    /\ ev.text.total = 2

\* C25: the Home button resolves to the label "Home" and the Work button to
\* "Work"; the Other button resolves to "Other" when the profile holds no
\* address besides Home and Work and to "Other 2" when it holds one, so that
\* a profile that got an "Other" gets an "Other 2" next.
C25_LabelResolution ==
    [][ev'.op = "add_address" =>
         LET choice == Strip(ev'.text.choice)
             label == ev'.text.label
             before == USERS[ev'.who].addresses
             plain == {i \in DOMAIN before : before[i].label \in {<<"Home">>, <<"Work">>}}
         IN  /\ choice = LABEL_HOME => label = <<"Home">>
             /\ choice = LABEL_WORK => label = <<"Work">>
             /\ choice = LABEL_OTHER =>
                    label = IF plain = DOMAIN before THEN <<"Other">>
                            ELSE <<"Other", " ", "2">>
             /\ (choice = LABEL_OTHER
                    /\ \E i \in DOMAIN before : before[i].label = <<"Other">>)
                 => label = <<"Other", " ", "2">>]_vars

\* "Other" was chosen twice for a profile with a Home: the labels are Home,
\* Other, Other 2
C25_Witness ==
    /\ ev.op = "add_address" /\ ev.res = "saved"
    /\ ev.text.label = <<"Other", " ", "2">>
    /\ [i \in DOMAIN USERS[1].addresses |-> USERS[1].addresses[i].label]
           = << <<"Home">>, <<"Other">>, <<"Other", " ", "2">> >>

C27_SessionsExpire ==
    [][/\ ev'.op \in {"sweep", "lookup"} =>
            /\ DOMAIN SESSIONS' =
                   {u \in DOMAIN SESSIONS :
                       /\ SESSIONS[u].updatedAt # NoValue
                       /\ SESSIONS[u].updatedAt + SESSION_TTL_SECONDS >= now}
            /\ \A u \in DOMAIN SESSIONS' : SESSIONS'[u] = SESSIONS[u]
       /\ ev'.op = "save_session" => SESSIONS'[ev'.who].updatedAt = now
       /\ (ev'.op = "lookup" /\ ev'.res = "found") =>
            /\ ev'.text.updatedAt # NoValue
            /\ now - ev'.text.updatedAt <= SESSION_TTL_SECONDS]_vars

\* a sweep at the last hour that removed a session and kept the one of age
\* SESSION_TTL_SECONDS
C27_Witness ==
    /\ ev.op = "sweep" /\ ev.n = 1
    /\ now = MaxTime
    /\ DOMAIN SESSIONS = {2}
    /\ SESSIONS[2].updatedAt = now - SESSION_TTL_SECONDS

\* C28: after a restart every ticket whose ledger record is open is in the
\* ticket store again, open, so that the operations on tickets find it.
C28_OpenTicketsRestored ==
    restarts > 0 =>
        \A t \in DOMAIN TICKET_RECORDS :
            TICKET_RECORDS[t].status = "open" =>
                t \in DOMAIN TICKETS /\ TICKETS[t].status = "open"

C30_ClosedIsAbsorbing ==
    [][/\ \A t \in DOMAIN TICKETS :
            /\ t \in DOMAIN TICKETS'
            /\ TICKETS[t].status = "closed" => TICKETS'[t].status = "closed"
       /\ \A t \in DOMAIN TICKET_RECORDS :
            /\ t \in DOMAIN TICKET_RECORDS'
            /\ TICKET_RECORDS[t].status = "closed" =>
                   TICKET_RECORDS'[t].status = "closed"]_vars

\* a ticket closed by a ban is still there, closed, after the unban and the
\* customer's next ticket
C30_Witness ==
    /\ ev.op = "confirm" /\ ev.res = "created"
    /\ \E t \in DOMAIN TICKETS :
          /\ t < ev.ticket
          /\ TICKETS[t].status = "closed"
          /\ TICKET_RECORDS[t].status = "closed"
          /\ TICKET_RECORDS[t].closeType = "banned"

\* C31: the Ban button of a ticket whose ledger record is closed leaves the
\* record's closeType, closedBy and closedAt as the close had set them.
C31_BanKeepsClose ==
    [][(/\ ev'.op = "ban_button"
        /\ ev'.ticket \in DOMAIN TICKET_RECORDS
        /\ TICKET_RECORDS[ev'.ticket].status = "closed") =>
           LET before == TICKET_RECORDS[ev'.ticket]
               after == TICKET_RECORDS'[ev'.ticket]
           IN  /\ after.closeType = before.closeType
               /\ after.closedBy = before.closedBy
               /\ after.closedAt = before.closedAt]_vars

\* C32: once the accept of a ticket has been processed (the ticket is
\* assigned and no handler is still pruning its list), the ticket's endpoint
\* list holds entries of the assigned worker only.
C32_OnlyOwnerEntries ==
    \A t \in DOMAIN TICKETS :
        (/\ TICKETS[t].assignedAdminId # NoAdmin
         /\ \A b \in Bots : handler[b].ticket = t => handler[b].pc \notin {"accepted", "prune"})
        => \A i \in DOMAIN TICKETS[t].adminMessages :
               TICKETS[t].adminMessages[i].chatId = TICKETS[t].assignedAdminId

\* C33: a reply that is delivered to the customer of a ticket that has an
\* owner is a reply of that owner: the reply of another worker to a message
\* of the ticket in their chat is not relayed.
C33_OnlyOwnerReplies ==
    [][(/\ ev'.op = "admin_reply"
        /\ ev'.res = "delivered"
        /\ TICKETS[ev'.ticket].assignedAdminId # NoAdmin)
       => ev'.who = TICKETS[ev'.ticket].assignedAdminId]_vars

\* the least number of whole minutes that is not less than the seconds
CeilMinutes(seconds) == (seconds + 59) \div 60

\* C34: the minutes reported to a rate-limited user are the seconds to wait
\* divided by 60 and rounded up: 60 seconds are reported as 1 minute.
C34_MinutesRoundedUp ==
    ev.op = "limited_reply" => ev.n = CeilMinutes(ev.text[1])

AddressIds(user) == {user.addresses[i].id : i \in DOMAIN user.addresses}

\* C35: the id given to an address that is saved differs from every id the
\* profile held before, however many addresses were created at that time.
C35_FreshAddressId ==
    [][(ev'.op = "add_address" /\ ev'.res = "saved") =>
           create_address_id(USERS[ev'.who]) \notin AddressIds(USERS[ev'.who])]_vars

\* C36: a chat that has an open ticket has an active-ticket pointer, and the
\* pointer refers to an open ticket of that chat.
C36_PointerToOpen ==
    \A chat \in Chats :
        OpenTicketsOf(chat) # {} => CUSTOMER_TICKETS[chat] \in OpenTicketsOf(chat)

\* C37: when no write fails, every ticket in memory has a ledger record
\* under its id, of the same chat and with the same status; the record of a
\* new ticket is created under an id the ledger did not hold, and a record
\* once created stays in the ledger with its time of creation.
C37_TicketAndLedger ==
    /\ [](\A t \in DOMAIN TICKETS :
              /\ t \in DOMAIN TICKET_RECORDS
              /\ TICKET_RECORDS[t].chatId = TICKETS[t].chatId
              /\ TICKET_RECORDS[t].status = TICKETS[t].status)
    /\ [][/\ (ev'.op = "confirm" /\ ev'.res = "created") =>
                  /\ ev'.ticket \notin DOMAIN TICKET_RECORDS
                  /\ ev'.ticket \in DOMAIN TICKET_RECORDS'
           /\ \A t \in DOMAIN TICKET_RECORDS :
                  /\ t \in DOMAIN TICKET_RECORDS'
                  /\ TICKET_RECORDS'[t].createdAt = TICKET_RECORDS[t].createdAt]_vars

\* one ticket of a chat closed, in memory and in the ledger, another open
C37_Witness ==
    \E t, u \in DOMAIN TICKETS :
        /\ TICKETS[t].status = "closed" /\ TICKET_RECORDS[t].status = "closed"
        /\ TICKETS[u].status = "open" /\ TICKET_RECORDS[u].status = "open"

\* the handler of bot b is sending the ticket made from the session of chat c
FanoutOf(b, c) == handler[b].pc = "fanout" /\ handler[b].chat = c

\* C38: the timeout task of a session whose window has elapsed does not act
\* (delete the session and send the notice) once the ticket of the session
\* has been created, that is while the fan-out of that ticket is going on.
C38_NoTimeoutAfterTicket ==
    [][(/\ ev'.op = "timeout"
        /\ ev'.res = "deleted"
        /\ now >= sessions[ev'.bot][ev'.who].last_active + SESSION_TIMEOUT_SECONDS)
       => ~FanoutOf(ev'.bot, ev'.who)]_vars

InboundOps == {"start", "answer", "confirm", "cancel", "message"}

\* C40: an update that comes in from a chat that is banned, and is neither
\* a worker's nor an escalation chat, creates no ticket, changes no session
\* and starts no relay; and a ticket closed by a ban stays closed, also
\* after the ban is lifted.
C40_BannedChatIsStopped ==
    /\ [][(/\ ev'.op \in InboundOps
           /\ ev'.who \in BANNED_CHAT_IDS
           /\ ~Exempt(ev'.who))
          => /\ TICKETS' = TICKETS
             /\ sessions' = sessions
             /\ handler' = handler]_vars
    /\ [][\A t \in DOMAIN TICKET_RECORDS :
              TICKET_RECORDS[t].closeType = "banned"
                  => /\ TICKET_RECORDS'[t].status = "closed"
                     /\ TICKETS'[t].status = "closed"]_vars

====
